---- MODULE Spec2Model ----
(***************************************************************************)
(* A model of the LINE <-> WeChat Work translation relay:                  *)
(*   - the user mapping store   (src/src/services/userMappingService.js)   *)
(*   - the LINE webhook         (src/src/api/lineWebhook.js)               *)
(*   - the WeChat Work sender   (src/src/api/wechatRelay.js)               *)
(*   - the WeChat Work webhook  (src/src/api/wechatWebhook.js)             *)
(***************************************************************************)
EXTENDS Integers, Sequences, FiniteSets, TLC

VARIABLES
    lineToChatMappings,   \* Map: LINE user id -> [wechatUserId]
    wechatToLineMappings, \* Map: WeChat user id -> [lineUserId]
    groupMappings,        \* Map: LINE group id -> WeChat group id
    userProfiles,         \* Map: <<platform, userId>> -> [displayName]
    prevOp,               \* history: the store call before the last one
    lastOp,               \* history: the last store call, its arguments and result
    env,                  \* process.env, fixed for the life of the process
    accessTokenCache,     \* wechatRelay.js: { token, expiresAt }
    now,                  \* Date.now(), in milliseconds
    pc,                   \* where the request in flight stands
    req,                  \* the HTTP request in flight
    idx,                  \* LINE: index of the event the for loop is at
    calls,                \* history: the calls made while serving req, in order
    res                   \* the HTTP response to req

storeVars == <<lineToChatMappings, wechatToLineMappings, groupMappings, userProfiles>>
histVars == <<prevOp, lastOp>>
relayVars == <<env, accessTokenCache, now, pc, req, idx, calls, res>>
vars == <<lineToChatMappings, wechatToLineMappings, groupMappings, userProfiles,
          prevOp, lastOp,
          env, accessTokenCache, now, pc, req, idx, calls, res>>

\* JavaScript's null / undefined, and the falsy test `!x` on a string.
NULL == "<null>"
\* undefined where the code tells it from null, and a value that is no string
UNDEFINED == "<undefined>"
NotAString == "<number 42>"
Falsy(x) == x = NULL \/ x = UNDEFINED \/ x = ""

(***************************************************************************)
(* Bounds                                                                  *)
(***************************************************************************)
NumLineIds == 2
NumWeChatIds == 2
\* entries in the users and in the groups list of USER_MAPPINGS
MaxEntries == 2

AllLineIds == <<"line_test_user_1", "line_test_user_2", "line_user_3", "line_user_4">>
AllWeChatIds == <<"wechat_test_user_1", "wechat_test_user_2", "wechat_user_3", "wechat_user_4">>
LineIds == {AllLineIds[i] : i \in 1..NumLineIds}
WeChatIds == {AllWeChatIds[i] : i \in 1..NumWeChatIds}

(***************************************************************************)
(* User mapping store                                                      *)
(***************************************************************************)
\* Map.prototype.set / delete on a Map held as a function over its keys
MapSet(m, k, v) == [x \in DOMAIN m \cup {k} |-> IF x = k THEN v ELSE m[x]]
MapDelete(m, k) == [x \in DOMAIN m \ {k} |-> m[x]]

EmptyMap == [x \in {} |-> NULL]

\* getWeChatUserFromLine: mapping ? mapping.wechatUserId : null
GetWeChatUserFromLineIn(l2w, lineUserId) ==
    IF lineUserId \in DOMAIN l2w THEN l2w[lineUserId].wechatUserId ELSE NULL

GetWeChatUserFromLine(lineUserId) ==
    GetWeChatUserFromLineIn(lineToChatMappings, lineUserId)

\* getLineUserFromWeChat: mapping ? mapping.lineUserId : null
GetLineUserFromWeChatIn(w2l, wechatUserId) ==
    IF wechatUserId \in DOMAIN w2l THEN w2l[wechatUserId].lineUserId ELSE NULL

GetLineUserFromWeChat(wechatUserId) ==
    GetLineUserFromWeChatIn(wechatToLineMappings, wechatUserId)

NoOp == [op |-> "none", a |-> NULL, b |-> NULL, ret |-> FALSE]

\* mapLineToWeChat: the forward entry written by lineToChatMappings.set
MapForward(l2w, lineUserId, wechatUserId) ==
    MapSet(l2w, lineUserId, [wechatUserId |-> wechatUserId])

\* A mapLineToWeChat that forgets the reverse index
MapReverse_Forgotten(w2l, lineUserId, wechatUserId) == w2l

\* mapLineToWeChat: the reverse entry written by wechatToLineMappings.set
MapReverse(w2l, lineUserId, wechatUserId) ==
    MapSet(w2l, wechatUserId, [lineUserId |-> lineUserId])

\* mapLineToWeChat(lineUserId, wechatUserId): both ids required, then both sets
MapLineToWeChat(lineUserId, wechatUserId) ==
    /\ prevOp' = lastOp
    /\ UNCHANGED relayVars
    /\ IF Falsy(lineUserId) \/ Falsy(wechatUserId)
       THEN /\ UNCHANGED storeVars
            /\ lastOp' = [op |-> "mapLineToWeChat", a |-> lineUserId,
                          b |-> wechatUserId, ret |-> FALSE]
       ELSE /\ lineToChatMappings' =
                   MapForward(lineToChatMappings, lineUserId, wechatUserId)
            /\ wechatToLineMappings' =
                   MapReverse(wechatToLineMappings, lineUserId, wechatUserId)
            /\ lastOp' = [op |-> "mapLineToWeChat", a |-> lineUserId,
                          b |-> wechatUserId, ret |-> TRUE]
            /\ UNCHANGED <<groupMappings, userProfiles>>

\* removeMapping: the forward index after the call
RemoveForward(l2w, lineUserId) ==
    IF lineUserId \in DOMAIN l2w THEN MapDelete(l2w, lineUserId) ELSE l2w

\* A removeMapping that deletes the forward entry only
RemoveReverse_Forgotten(l2w, w2l, lineUserId) == w2l

\* removeMapping: the reverse index after the call
RemoveReverse(l2w, w2l, lineUserId) ==
    IF lineUserId \in DOMAIN l2w
    THEN MapDelete(w2l, l2w[lineUserId].wechatUserId)
    ELSE w2l

\* removeMapping(lineUserId): a synchronous function, run to completion
RemoveMapping(lineUserId) ==
    /\ prevOp' = lastOp
    /\ lineToChatMappings' = RemoveForward(lineToChatMappings, lineUserId)
    /\ wechatToLineMappings' =
           RemoveReverse(lineToChatMappings, wechatToLineMappings, lineUserId)
    /\ lastOp' = [op |-> "removeMapping", a |-> lineUserId,
                  b |-> GetWeChatUserFromLine(lineUserId),
                  ret |-> lineUserId \in DOMAIN lineToChatMappings]
    /\ UNCHANGED <<groupMappings, userProfiles, relayVars>>

\* A display name is a sequence of characters. String.prototype.toLowerCase
\* on the letters the names are made of
LowerChar(c) ==
    CASE c = "A" -> "a"
      [] c = "B" -> "b"
      [] OTHER -> c
ToLowerCase(name) == [k \in 1..Len(name) |-> LowerChar(name[k])]

\* profile.displayName?.toLowerCase() || ''
NormalisedName(profile) ==
    IF "displayName" \in DOMAIN profile THEN ToLowerCase(profile.displayName) ELSE <<>>

Min3(a, b, c) ==
    IF a <= b /\ a <= c THEN a ELSE IF b <= c THEN b ELSE c

\* _levenshteinDistance(str1, str2): the matrix filled row by row, rows over
\* str2 and columns over str1
LevenshteinDistance(str1, str2) ==
    LET matrix[i \in 0..Len(str2), j \in 0..Len(str1)] ==
            IF i = 0 THEN j
            ELSE IF j = 0 THEN i
            ELSE IF str2[i] = str1[j] THEN matrix[i - 1, j - 1]
            ELSE Min3(matrix[i - 1, j - 1] + 1, matrix[i, j - 1] + 1,
                      matrix[i - 1, j] + 1)
    IN  matrix[Len(str2), Len(str1)]

\* _calculateSimilarity(str1, str2): the quotient
\* (longer.length - editDistance) / longer.length, kept as a fraction
CalculateSimilarity(str1, str2) ==
    LET longer == IF Len(str1) > Len(str2) THEN str1 ELSE str2
        shorter == IF Len(str1) > Len(str2) THEN str2 ELSE str1
    IN  [num |-> Len(longer) - LevenshteinDistance(longer, shorter),
         den |-> Len(longer)]

\* The threshold 0.8 as the fraction ThresholdNum / ThresholdDen
ThresholdNum == 4
ThresholdDen == 5

\* A comparison that lets the threshold itself through
ExceedsThreshold_AtLeast(sim) ==
    sim.den > 0 /\ ThresholdDen * sim.num >= ThresholdNum * sim.den

\* `similarity > 0.8`; 0 / 0 is NaN, and NaN > 0.8 is false. The double
\* nearest to num / den is above the double 0.8 exactly when the fraction is
\* above 4 / 5: strings are far too short for the two to round together.
ExceedsThreshold(sim) ==
    sim.den > 0 /\ ThresholdDen * sim.num > ThresholdNum * sim.den

\* null where a profile object is expected
NullProfile == [isNull |-> TRUE]

\* getUserProfile(platform, userId): the profile stored under the key
\* `${platform}:${userId}`, or null
GetUserProfile(platform, userId) ==
    IF <<platform, userId>> \in DOMAIN userProfiles
    THEN userProfiles[<<platform, userId>>]
    ELSE NullProfile

\* storeUserProfile(platform, userId, profile)
StoreUserProfile(platform, userId, profile) ==
    /\ userProfiles' = MapSet(userProfiles, <<platform, userId>>, profile)
    /\ prevOp' = lastOp
    /\ lastOp' = [op |-> "storeUserProfile", a |-> platform, b |-> userId, ret |-> TRUE]
    /\ UNCHANGED <<lineToChatMappings, wechatToLineMappings, groupMappings, relayVars>>

\* attemptAutoMapping: the test that leads to mapLineToWeChat
AutoMappingMatches(lineProfile, wechatProfile) ==
    /\ lineProfile # NullProfile /\ wechatProfile # NullProfile
    /\ NormalisedName(lineProfile) # <<>>
    /\ NormalisedName(wechatProfile) # <<>>
    /\ ExceedsThreshold(CalculateSimilarity(NormalisedName(lineProfile),
                                            NormalisedName(wechatProfile)))

\* attemptAutoMapping(lineUserId, wechatUserId)
AttemptAutoMapping(lineUserId, wechatUserId) ==
    LET matches == AutoMappingMatches(GetUserProfile("line", lineUserId),
                                      GetUserProfile("wechat", wechatUserId))
        mapped == matches /\ ~Falsy(lineUserId) /\ ~Falsy(wechatUserId)
    IN  /\ IF mapped
           THEN /\ lineToChatMappings' =
                       MapForward(lineToChatMappings, lineUserId, wechatUserId)
                /\ wechatToLineMappings' =
                       MapReverse(wechatToLineMappings, lineUserId, wechatUserId)
           ELSE UNCHANGED <<lineToChatMappings, wechatToLineMappings>>
        /\ prevOp' = lastOp
        /\ lastOp' = [op |-> "attemptAutoMapping", a |-> lineUserId,
                      b |-> wechatUserId, ret |-> mapped]
        /\ UNCHANGED <<groupMappings, userProfiles, relayVars>>
\* mapGroups(lineGroupId, wechatGroupId): both ids required, then one set
MapGroups(lineGroupId, wechatGroupId) ==
    /\ prevOp' = lastOp
    /\ UNCHANGED <<lineToChatMappings, wechatToLineMappings, userProfiles, relayVars>>
    /\ IF Falsy(lineGroupId) \/ Falsy(wechatGroupId)
       THEN /\ UNCHANGED groupMappings
            /\ lastOp' = [op |-> "mapGroups", a |-> lineGroupId,
                          b |-> wechatGroupId, ret |-> FALSE]
       ELSE /\ groupMappings' = MapSet(groupMappings, lineGroupId, wechatGroupId)
            /\ lastOp' = [op |-> "mapGroups", a |-> lineGroupId,
                          b |-> wechatGroupId, ret |-> TRUE]

\* getWeChatGroupFromLine: groupMappings.get(lineGroupId) || null
GetWeChatGroupFromLineIn(groups, lineGroupId) ==
    IF lineGroupId \in DOMAIN groups /\ ~Falsy(groups[lineGroupId])
    THEN groups[lineGroupId]
    ELSE NULL

GetWeChatGroupFromLine(lineGroupId) ==
    GetWeChatGroupFromLineIn(groupMappings, lineGroupId)

\* An element of a list of the parsed USER_MAPPINGS is a JSON value: an
\* object with its fields, a number, or null. mapping.<name> is the field,
\* undefined where the value has no such field; on null it raises TypeError
\* (Raises below).
Property(mapping, name) ==
    IF name \in DOMAIN mapping THEN mapping[name] ELSE UNDEFINED

Raises(mapping) == mapping.type = "null"

\* mappings.users.forEach(mapping => this.mapLineToWeChat(...)): the two
\* indexes after the loop, or the loop left by the TypeError
ImportUsers(l2w, w2l, users) ==
    LET step[k \in 0..Len(users)] ==
            IF k = 0 THEN [l2w |-> l2w, w2l |-> w2l, threw |-> FALSE]
            ELSE LET p == step[k - 1]
                     a == Property(users[k], "lineUserId")
                     b == Property(users[k], "wechatUserId")
                 IN  IF p.threw THEN p
                     ELSE IF Raises(users[k]) THEN [p EXCEPT !.threw = TRUE]
                     ELSE IF Falsy(a) \/ Falsy(b) THEN p
                     ELSE [l2w |-> MapForward(p.l2w, a, b),
                           w2l |-> MapReverse(p.w2l, a, b),
                           threw |-> FALSE]
    IN  step[Len(users)]

\* mappings.groups.forEach(mapping => this.mapGroups(...))
ImportGroups(groups, entries) ==
    LET step[k \in 0..Len(entries)] ==
            IF k = 0 THEN [groups |-> groups, threw |-> FALSE]
            ELSE LET p == step[k - 1]
                     a == Property(entries[k], "lineGroupId")
                     b == Property(entries[k], "wechatGroupId")
                 IN  IF p.threw THEN p
                     ELSE IF Raises(entries[k]) THEN [p EXCEPT !.threw = TRUE]
                     ELSE IF Falsy(a) \/ Falsy(b) THEN p
                     ELSE [groups |-> MapSet(p.groups, a, b), threw |-> FALSE]
    IN  step[Len(entries)]

\* loadMappingsFromConfig(): the store after the try block, and whether the
\* catch was entered. mappingConfig is process.env.USER_MAPPINGS: unset, a
\* text that is no JSON, or the JSON object it parses to; a list that is
\* absent from the object is not a field of it.
LoadedMappings(mappingConfig) ==
    LET before == [l2w |-> lineToChatMappings, w2l |-> wechatToLineMappings,
                   groups |-> groupMappings, caught |-> FALSE]
    IN  IF mappingConfig.kind = "unset" THEN before
        ELSE IF mappingConfig.kind = "invalid" THEN [before EXCEPT !.caught = TRUE]
        ELSE LET u == IF "users" \in DOMAIN mappingConfig
                      THEN ImportUsers(lineToChatMappings, wechatToLineMappings,
                                       mappingConfig.users)
                      ELSE [l2w |-> lineToChatMappings,
                            w2l |-> wechatToLineMappings, threw |-> FALSE]
                 g == IF ~u.threw /\ "groups" \in DOMAIN mappingConfig
                      THEN ImportGroups(groupMappings, mappingConfig.groups)
                      ELSE [groups |-> groupMappings, threw |-> FALSE]
             IN  [l2w |-> u.l2w, w2l |-> u.w2l, groups |-> g.groups,
                  caught |-> u.threw \/ g.threw]

\* loadMappingsFromConfig(): the catch only logs, the call returns undefined
LoadMappingsFromConfig(mappingConfig) ==
    LET loaded == LoadedMappings(mappingConfig)
    IN  /\ lineToChatMappings' = loaded.l2w
        /\ wechatToLineMappings' = loaded.w2l
        /\ groupMappings' = loaded.groups
        /\ prevOp' = lastOp
        /\ lastOp' = [op |-> "loadMappingsFromConfig", a |-> mappingConfig,
                      b |-> loaded.caught, ret |-> UNDEFINED]
        /\ UNCHANGED <<userProfiles, relayVars>>

(***************************************************************************)
(* Process environment                                                     *)
(***************************************************************************)
LineSecret == "line-channel-secret"
WeComToken == "wecom-callback-token"

\* A production configuration; every other configuration overrides fields of it.
ProdEnv ==
    [DISABLE_SIGNATURE_VALIDATION |-> NULL,
     LINE_CHANNEL_SECRET |-> LineSecret,
     WECOM_AGENT_ID |-> "1000002",
     WECOM_CORP_ID |-> "corp-id",
     WECOM_CORP_SECRET |-> "corp-secret",
     WECOM_CALLBACK_TOKEN |-> WeComToken,
     WECOM_AES_KEY |-> "aes-key",
     WECOM_MOCK_MESSAGES |-> NULL,
     LINE_CHANNEL_ACCESS_TOKEN |-> "line-access-token",
     TRANSLATION_PROVIDER |-> NULL,
     OPENAI_API_KEY |-> "sk-openai-key",
     NODE_ENV |-> "production"]

EnvConfigs ==
    {ProdEnv,
     [ProdEnv EXCEPT !.DISABLE_SIGNATURE_VALIDATION = "true"],
     [ProdEnv EXCEPT !.DISABLE_SIGNATURE_VALIDATION = "false"],
     [ProdEnv EXCEPT !.LINE_CHANNEL_SECRET = NULL],
     [ProdEnv EXCEPT !.WECOM_AGENT_ID = NULL],
     [ProdEnv EXCEPT !.WECOM_CALLBACK_TOKEN = NULL],
     [ProdEnv EXCEPT !.WECOM_AES_KEY = NULL],
     [ProdEnv EXCEPT !.NODE_ENV = "test"],
     [ProdEnv EXCEPT !.WECOM_MOCK_MESSAGES = "true"],
     [ProdEnv EXCEPT !.NODE_ENV = NULL]}

(***************************************************************************)
(* Bytes, JSON and HMAC                                                    *)
(***************************************************************************)
\* A request body as transmitted: the JSON value it parses to, and whether
\* its bytes are the ones JSON.stringify produces for that value (a body
\* with other spacing, key escapes or number forms parses to the same value).
RawBody(json, canonical) == [json |-> json, canonical |-> canonical]

\* express.json(): the parsed value of the raw bytes
JsonParse(raw) == raw.json

\* JSON.stringify: always the canonical serialization
JsonStringify(json) == RawBody(json, TRUE)

\* crypto.createHmac('sha256', key).update(data).digest('base64'), an
\* injective function of key and data
HmacSha256Base64(key, data) == [alg |-> "hmac-sha256", key |-> key, data |-> data]

\* no X-Line-Signature header
NoSignature == [alg |-> NULL, key |-> NULL, data |-> RawBody(NULL, TRUE)]

(***************************************************************************)
(* Calls recorded in `calls`                                               *)
(***************************************************************************)
LookupCall(ev, fn, id, ret) == [fn |-> fn, ev |-> ev, id |-> id, ret |-> ret]
TranslateCall(ev, fn, text, ret) == [fn |-> fn, ev |-> ev, text |-> text, ret |-> ret]
\* sendWeComMessage(content, touser, toparty, totag): arguments bound to the
\* callee's parameters in order
WeComCall(ev, content, touser, toparty, outcome) ==
    [fn |-> "sendWeComMessage", ev |-> ev, content |-> content,
     touser |-> touser, toparty |-> toparty, totag |-> "", outcome |-> outcome]
\* sendLinePush(to, message)
PushCall(to, message, outcome) ==
    [fn |-> "sendLinePush", ev |-> 1, to |-> to, message |-> message,
     outcome |-> outcome]
\* processWeChatMessage(messageData)
ProcessCall(messageData) ==
    [fn |-> "processWeChatMessage", ev |-> 1, messageData |-> messageData]
\* sendLineReply(replyToken, message)
ReplyCall(ev, replyToken, message) ==
    [fn |-> "sendLineReply", ev |-> ev, replyToken |-> replyToken,
     message |-> message]

CallsOf(fn) == SelectSeq(calls, LAMBDA c : c.fn = fn)
CallsOfEv(fn, ev) == SelectSeq(calls, LAMBDA c : c.fn = fn /\ c.ev = ev)
CallsEv(ev) == SelectSeq(calls, LAMBDA c : c.ev = ev)

(***************************************************************************)
(* Translation service                                                     *)
(***************************************************************************)
\* What the chat-completion request does in the relay: a translation, an
\* error (auth, rate limit, timeout) or a blank completion
ProviderOutcomes == {"ok", "error", "blank"}

\* The ways the chat-completion request fails: HTTP 401, HTTP 429, the axios
\* timeout, a 200 without choices[0].message.content, a 200 whose content is
\* empty or only white space
ProviderFailures == {"auth-error", "rate-limit", "timeout", "malformed", "blank"}

\* typeof text === 'string'
IsString(x) == x \notin {NULL, UNDEFINED, NotAString}

\* calls of the provider: the mock, or the POST to the chat-completion API
MockCall(text, sourceLang, targetLang) ==
    [fn |-> "_translateWithMock", ev |-> 0, text |-> text,
     sourceLang |-> sourceLang, targetLang |-> targetLang]
OpenAICall(text, targetLang) ==
    [fn |-> "axios.post", ev |-> 0, text |-> text,
     sourceLang |-> NULL, targetLang |-> targetLang]

\* what a function of the service hands back: its value, whether it threw,
\* and the provider calls it made
Returned(ret, providerCalls) == [ret |-> ret, threw |-> FALSE, calls |-> providerCalls]

\* _translateWithMock(text, sourceLang, targetLang)
TranslateWithMock(text, sourceLang, targetLang) ==
    Returned(CASE targetLang \in {"zh-CN", "zh"} -> "[zh] " \o text
               [] targetLang = "ja" -> "[ja] " \o text
               [] OTHER -> "[" \o targetLang \o "] " \o text,
             <<MockCall(text, sourceLang, targetLang)>>)

\* response.data.choices[0].message.content.trim() of a successful completion
Completion(text, targetLang) ==
    (IF targetLang \in {"zh-CN", "zh"} THEN "zh:" ELSE "ja:") \o text

\* _translateWithOpenAI(text, targetLang): the trimmed completion, or the text
\* when there is no API key or the request or the reading of its answer throws
TranslateWithOpenAI(e, text, targetLang, provider) ==
    IF Falsy(e.OPENAI_API_KEY) THEN Returned(text, <<>>)
    ELSE Returned(CASE provider = "ok" -> Completion(text, targetLang)
                    [] provider = "blank" -> ""
                    [] OTHER -> text,
                  <<OpenAICall(text, targetLang)>>)

\* A _performTranslation without the same-language return
PerformTranslation_NoShortCircuit(e, text, sourceLang, targetLang, provider) ==
    IF e.NODE_ENV = "test" \/ e.TRANSLATION_PROVIDER = "mock"
    THEN TranslateWithMock(text, sourceLang, targetLang)
    ELSE TranslateWithOpenAI(e, text, targetLang, provider)

\* _performTranslation(text, sourceLang, targetLang)
PerformTranslation(e, text, sourceLang, targetLang, provider) ==
    IF sourceLang = targetLang THEN Returned(text, <<>>)
    ELSE IF e.NODE_ENV = "test" \/ e.TRANSLATION_PROVIDER = "mock"
    THEN TranslateWithMock(text, sourceLang, targetLang)
    ELSE TranslateWithOpenAI(e, text, targetLang, provider)

\* A guard that lets an empty or absent text through to the translation
InvalidText_Ignored(text) == FALSE

\* translateToChinese / translateToJapanese: !text || typeof text !== 'string'
InvalidText(text) == Falsy(text) \/ ~IsString(text)

\* text || ''
OrEmpty(text) == IF Falsy(text) THEN "" ELSE text

\* translateToJapanese(text, sourceLang = 'auto')
TranslateToJapanese(e, text, sourceLang, provider) ==
    IF InvalidText(text) THEN Returned(OrEmpty(text), <<>>)
    ELSE PerformTranslation(e, text, sourceLang, "ja", provider)

\* translateToChinese(text, sourceLang = 'auto')
TranslateToChinese(e, text, sourceLang, provider) ==
    IF InvalidText(text) THEN Returned(OrEmpty(text), <<>>)
    ELSE PerformTranslation(e, text, sourceLang, "zh-CN", provider)

(***************************************************************************)
(* WeChat Work sender (wechatRelay.js)                                     *)
(***************************************************************************)
TokenBufferMs == 300000
ExpiresInMs == 7200000

EmptyCache == [token |-> NULL, expiresAt |-> 0]

\* What the gettoken request does
TokenOutcomes == {"ok", "fail"}
\* What the message/send request does: errcode 0, an authentication errcode,
\* or any other failure (another errcode, a network error, a timeout)
PostOutcomes == {"ok", "40014", "42001", "error"}

\* The access token the provider issues at time t
IssuedToken(t) == "access-token@" \o ToString(t)

\* A getWeComAccessToken that hands out the cached token up to its expiry
GetWeComAccessToken_NoBuffer(e, cache, t, tokenOutcome) ==
    IF Falsy(e.WECOM_CORP_ID) \/ Falsy(e.WECOM_CORP_SECRET)
    THEN [threw |-> TRUE, token |-> NULL, cache |-> cache, fetched |-> FALSE]
    ELSE IF cache.token # NULL /\ t < cache.expiresAt
    THEN [threw |-> FALSE, token |-> cache.token, cache |-> cache, fetched |-> FALSE]
    ELSE IF tokenOutcome = "ok"
    THEN [threw |-> FALSE, token |-> IssuedToken(t),
          cache |-> [token |-> IssuedToken(t), expiresAt |-> t + ExpiresInMs],
          fetched |-> TRUE]
    ELSE [threw |-> TRUE, token |-> NULL, cache |-> cache, fetched |-> TRUE]

\* getWeComAccessToken: [threw, token, cache, fetched], fetched telling
\* whether the gettoken request was made
GetWeComAccessToken(e, cache, t, tokenOutcome) ==
    IF Falsy(e.WECOM_CORP_ID) \/ Falsy(e.WECOM_CORP_SECRET)
    THEN [threw |-> TRUE, token |-> NULL, cache |-> cache, fetched |-> FALSE]
    ELSE IF cache.token # NULL /\ t < cache.expiresAt - TokenBufferMs
    THEN [threw |-> FALSE, token |-> cache.token, cache |-> cache, fetched |-> FALSE]
    ELSE IF tokenOutcome = "ok"
    THEN [threw |-> FALSE, token |-> IssuedToken(t),
          cache |-> [token |-> IssuedToken(t), expiresAt |-> t + ExpiresInMs],
          fetched |-> TRUE]
    ELSE [threw |-> TRUE, token |-> NULL, cache |-> cache, fetched |-> TRUE]

\* A sendWeComMessage that leaves the cache alone on every error
SendWeComMessage_KeepsToken(e, cache, t, content, touser, toparty, tokenOutcome, postOutcome) ==
    LET tok == GetWeComAccessToken(e, cache, t, tokenOutcome) IN
    IF Falsy(e.WECOM_AGENT_ID)
    THEN [outcome |-> "no-agent-id", cache |-> cache]
    ELSE IF Falsy(content)
    THEN [outcome |-> "empty-content", cache |-> cache]
    ELSE IF tok.threw
    THEN [outcome |-> "no-token", cache |-> tok.cache]
    ELSE IF postOutcome = "ok"
    THEN [outcome |-> "sent", cache |-> tok.cache]
    ELSE [outcome |-> IF postOutcome \in {"40014", "42001"} THEN postOutcome ELSE "error",
          cache |-> tok.cache]

\* sendWeComMessage(content, touser, toparty): [outcome, cache], outcome being
\* "sent" (the result object is returned) or what it threw for
SendWeComMessage(e, cache, t, content, touser, toparty, tokenOutcome, postOutcome) ==
    LET tok == GetWeComAccessToken(e, cache, t, tokenOutcome) IN
    IF Falsy(e.WECOM_AGENT_ID)
    THEN [outcome |-> "no-agent-id", cache |-> cache]
    ELSE IF Falsy(content)
    THEN [outcome |-> "empty-content", cache |-> cache]
    ELSE IF tok.threw
    THEN [outcome |-> "no-token", cache |-> tok.cache]
    ELSE IF postOutcome = "ok"
    THEN [outcome |-> "sent", cache |-> tok.cache]
    ELSE IF postOutcome \in {"40014", "42001"}
    THEN [outcome |-> postOutcome, cache |-> EmptyCache]
    ELSE [outcome |-> "error", cache |-> tok.cache]

(***************************************************************************)
(* LINE webhook (lineWebhook.js)                                           *)
(***************************************************************************)
\* A relayToWeChat that does not stop on a missing mapping
NoMapping_Ignored(wechatUserId) == FALSE

\* relayToWeChat: if (!wechatUserId) return false
NoMapping(wechatUserId) == Falsy(wechatUserId)

\* A relayToWeChat that sends a second time when the first send fails
RelayToWeChat_Retries(ev, lineUserId, message, provider, tokenOutcome, postOutcome) ==
    LET wechatUserId == GetWeChatUserFromLine(lineUserId)
        lookup == LookupCall(ev, "getWeChatUserFromLine", lineUserId, wechatUserId)
        translatedMessage == TranslateToChinese(env, message, "auto", provider).ret
        sent == SendWeComMessage(env, accessTokenCache, now, wechatUserId,
                                 translatedMessage, "text", tokenOutcome, postOutcome)
        again == SendWeComMessage(env, sent.cache, now, wechatUserId,
                                  translatedMessage, "text", tokenOutcome, postOutcome)
        first == <<lookup,
                   TranslateCall(ev, "translateToChinese", message, translatedMessage),
                   WeComCall(ev, wechatUserId, translatedMessage, "text", sent.outcome)>>
    IN  IF NoMapping(wechatUserId) \/ Falsy(message)
        THEN [success |-> FALSE, cache |-> accessTokenCache, calls |-> <<lookup>>]
        ELSE IF sent.outcome = "sent"
        THEN [success |-> TRUE, cache |-> sent.cache, calls |-> first]
        ELSE [success |-> again.outcome = "sent", cache |-> again.cache,
              calls |-> Append(first, WeComCall(ev, wechatUserId, translatedMessage,
                                                "text", again.outcome))]

\* relayToWeChat(lineUserId, message, 'text'): [success, cache, calls]
RelayToWeChat(ev, lineUserId, message, provider, tokenOutcome, postOutcome) ==
    LET wechatUserId == GetWeChatUserFromLine(lineUserId)
        lookup == LookupCall(ev, "getWeChatUserFromLine", lineUserId, wechatUserId)
        translatedMessage == TranslateToChinese(env, message, "auto", provider).ret
        sent == SendWeComMessage(env, accessTokenCache, now, wechatUserId,
                                 translatedMessage, "text", tokenOutcome, postOutcome)
    IN  IF NoMapping(wechatUserId)
        THEN [success |-> FALSE, cache |-> accessTokenCache, calls |-> <<lookup>>]
        ELSE IF Falsy(message)
        THEN [success |-> FALSE, cache |-> accessTokenCache, calls |-> <<lookup>>]
        ELSE [success |-> sent.outcome = "sent",
              cache |-> sent.cache,
              calls |-> <<lookup,
                          TranslateCall(ev, "translateToChinese", message,
                                        translatedMessage),
                          WeComCall(ev, wechatUserId, translatedMessage, "text",
                                    sent.outcome)>>]

\* A LINE webhook event. payload says whether the object the event type
\* carries (message, postback, unsend) is present; text holds message.text,
\* message.fileName, the location title, the sticker keywords joined, or
\* postback.data.
LineEvent(type, payload, msgType, text, userId, replyToken) ==
    [type |-> type, payload |-> payload, msgType |-> msgType, text |-> text,
     userId |-> userId, replyToken |-> replyToken]

ForwardedReply == "Message forwarded to WeChat"
EchoReply(text) == "Echo: " \o text
ImageNotice == "Image sent"
ImageForwardedReply == "Image notification sent to WeChat"
ImageReply == "I received your image!"
VideoReply == "I received your video!"
AudioReply == "I received your voice message!"
FileReply(fileName) == "I received your file: " \o fileName
LocationReply(title) == "I received your location: " \o title
StickerNotice(keywords) ==
    IF keywords # "" THEN keywords \o " (sent a sticker)" ELSE "Sticker sent"
StickerForwardedReply == "Sticker info sent to WeChat"
StickerReply == "Nice sticker!"
UnknownMessageReply == "I received your message, but I don't know how to handle this type yet."
FollowReply == "Thank you for adding me as a friend!"
JoinReply == "Hello everyone! Thanks for adding me to the group!"
PostbackReply(data) == "You clicked: " \o data

\* The reply sent after a relay attempt: the confirmation on success, the
\* fallback otherwise
ReplyAfterRelay_AlwaysConfirm(success, confirmation, fallback) == confirmation

ReplyAfterRelay(success, confirmation, fallback) ==
    IF success THEN confirmation ELSE fallback

\* A handler that confirms before the relay and replies again after it
RelayAndReply_RepliesTwice(ev, e, notice, confirmation, fallback, provider, tokenOutcome, postOutcome) ==
    LET relay == RelayToWeChat(ev, e.userId, notice, provider, tokenOutcome, postOutcome)
    IN  [cache |-> relay.cache,
         calls |-> <<ReplyCall(ev, e.replyToken, confirmation)>> \o
                   Append(relay.calls,
                          ReplyCall(ev, e.replyToken,
                                    ReplyAfterRelay(relay.success, confirmation, fallback)))]

\* handleMessageEvent, cases text / image / sticker: relay, then reply
RelayAndReply(ev, e, notice, confirmation, fallback, provider, tokenOutcome, postOutcome) ==
    LET relay == RelayToWeChat(ev, e.userId, notice, provider, tokenOutcome, postOutcome)
    IN  [cache |-> relay.cache,
         calls |-> Append(relay.calls,
                          ReplyCall(ev, e.replyToken,
                                    ReplyAfterRelay(relay.success, confirmation, fallback)))]

\* A reply-only case that tries the relay first
ReplyOnly_Relays(ev, e, message) ==
    RelayAndReply(ev, e, message, message, message, "ok", "ok", "ok")

\* handleMessageEvent, the cases that only reply
ReplyOnly(ev, e, message) ==
    [cache |-> accessTokenCache, calls |-> <<ReplyCall(ev, e.replyToken, message)>>]

\* A handleMessageEvent that does not ask for the reply token
MessageEventDropped_TokenUnchecked(e) ==
    ~e.payload \/ Falsy(e.userId)

\* handleMessageEvent: the early returns on a missing field
MessageEventDropped(e) ==
    ~e.payload \/ Falsy(e.userId) \/ Falsy(e.replyToken)

\* handleMessageEvent(event): [cache, calls]
MessageEventResult(ev, e, provider, tokenOutcome, postOutcome) ==
    IF MessageEventDropped(e)
    THEN [cache |-> accessTokenCache, calls |-> <<>>]
    ELSE CASE e.msgType = "text" ->
                RelayAndReply(ev, e, e.text, ForwardedReply, EchoReply(e.text),
                              provider, tokenOutcome, postOutcome)
           [] e.msgType = "image" ->
                RelayAndReply(ev, e, ImageNotice, ImageForwardedReply, ImageReply,
                              provider, tokenOutcome, postOutcome)
           [] e.msgType = "video" -> ReplyOnly(ev, e, VideoReply)
           [] e.msgType = "audio" -> ReplyOnly(ev, e, AudioReply)
           [] e.msgType = "file" -> ReplyOnly(ev, e, FileReply(e.text))
           [] e.msgType = "location" -> ReplyOnly(ev, e, LocationReply(e.text))
           [] e.msgType = "sticker" ->
                RelayAndReply(ev, e, StickerNotice(e.text), StickerForwardedReply,
                              StickerReply, provider, tokenOutcome, postOutcome)
           [] OTHER -> ReplyOnly(ev, e, UnknownMessageReply)

\* A middleware that takes any non-empty flag for the bypass
ValidateLineSignature_TruthyFlag(e, r) ==
    IF ~Falsy(e.DISABLE_SIGNATURE_VALIDATION) THEN "next"
    ELSE IF Falsy(e.LINE_CHANNEL_SECRET) THEN "500"
    ELSE IF r.signature # HmacSha256Base64(e.LINE_CHANNEL_SECRET,
                                           JsonStringify(JsonParse(r.raw)))
    THEN "401"
    ELSE "next"

\* validateLineSignature: "next", or the status it answers with
ValidateLineSignature(e, r) ==
    IF e.DISABLE_SIGNATURE_VALIDATION = "true" THEN "next"
    ELSE IF Falsy(e.LINE_CHANNEL_SECRET) THEN "500"
    ELSE IF r.signature # HmacSha256Base64(e.LINE_CHANNEL_SECRET,
                                           JsonStringify(JsonParse(r.raw)))
    THEN "401"
    ELSE "next"

NoReq == [platform |-> "none"]
NoRes == [status |-> 0, body |-> ""]
Response(status, body) == [status |-> status, body |-> body]

\* A loop that walks the envelope from its end
CurrentEvent_Reversed ==
    JsonParse(req.raw).events[Len(JsonParse(req.raw).events) - idx + 1]

\* The event the for loop of router.post('/') is at
CurrentEvent == JsonParse(req.raw).events[idx]
InLineLoop(type) ==
    /\ pc = "line_events"
    /\ idx <= Len(JsonParse(req.raw).events)
    /\ CurrentEvent.type = type

\* The loop moves to the next event
NextEvent == /\ idx' = idx + 1
             /\ UNCHANGED <<pc, req, res>>

\* A loop that goes on to the next event after an exception
CatchAnswers500_Continue == NextEvent

\* An exception leaves the loop: the catch of router.post('/') answers 500
CatchAnswers500 == /\ pc' = "done"
                   /\ res' = Response(500, "Internal Server Error")
                   /\ UNCHANGED <<req, idx>>

\* A POST to /webhook/line arrives: validateLineSignature, then the handler
\* up to its loop
LineReceive(json, canonical, signature) ==
    LET r == [platform |-> "line", raw |-> RawBody(json, canonical),
              signature |-> signature]
        verdict == ValidateLineSignature(env, r)
    IN  /\ pc = "idle"
        /\ req' = r
        /\ calls' = <<>>
        /\ idx' = 1
        /\ IF verdict = "500"
           THEN pc' = "done" /\ res' = Response(500, "Server configuration error")
           ELSE IF verdict = "401"
           THEN pc' = "done" /\ res' = Response(401, "Unauthorized")
           ELSE IF ~JsonParse(r.raw).hasEvents
           THEN pc' = "done" /\ res' = Response(200, "OK")
           ELSE pc' = "line_events" /\ res' = NoRes
        /\ UNCHANGED <<storeVars, histVars, env, accessTokenCache, now>>

HandleMessageEvent(provider, tokenOutcome, postOutcome) ==
    /\ InLineLoop("message")
    /\ LET r == MessageEventResult(idx, CurrentEvent, provider, tokenOutcome, postOutcome)
       IN  /\ calls' = calls \o r.calls
           /\ accessTokenCache' = r.cache
    /\ NextEvent
    /\ UNCHANGED <<storeVars, histVars, env, now>>

HandleFollowEvent ==
    /\ InLineLoop("follow")
    /\ calls' = Append(calls, ReplyCall(idx, CurrentEvent.replyToken, FollowReply))
    /\ NextEvent
    /\ UNCHANGED <<storeVars, histVars, env, accessTokenCache, now>>

HandleUnfollowEvent ==
    /\ InLineLoop("unfollow")
    /\ NextEvent
    /\ UNCHANGED <<storeVars, histVars, env, accessTokenCache, now, calls>>

HandleJoinEvent ==
    /\ InLineLoop("join")
    /\ calls' = Append(calls, ReplyCall(idx, CurrentEvent.replyToken, JoinReply))
    /\ NextEvent
    /\ UNCHANGED <<storeVars, histVars, env, accessTokenCache, now>>

\* A leave handler that answers on the reply token
HandleLeaveEvent_Replies ==
    /\ InLineLoop("leave")
    /\ calls' = Append(calls, ReplyCall(idx, CurrentEvent.replyToken, JoinReply))
    /\ NextEvent
    /\ UNCHANGED <<storeVars, histVars, env, accessTokenCache, now>>

HandleLeaveEvent ==
    /\ InLineLoop("leave")
    /\ NextEvent
    /\ UNCHANGED <<storeVars, histVars, env, accessTokenCache, now, calls>>

\* handlePostbackEvent: event.postback.data throws when postback is missing
HandlePostbackEvent ==
    /\ InLineLoop("postback")
    /\ IF CurrentEvent.payload
       THEN /\ calls' = Append(calls, ReplyCall(idx, CurrentEvent.replyToken,
                                                PostbackReply(CurrentEvent.text)))
            /\ NextEvent
       ELSE /\ CatchAnswers500
            /\ UNCHANGED calls
    /\ UNCHANGED <<storeVars, histVars, env, accessTokenCache, now>>

\* handleUnsendEvent: event.unsend.messageId throws when unsend is missing
HandleUnsendEvent ==
    /\ InLineLoop("unsend")
    /\ IF CurrentEvent.payload THEN NextEvent ELSE CatchAnswers500
    /\ UNCHANGED <<storeVars, histVars, env, accessTokenCache, now, calls>>

LineEventTypes ==
    {"message", "follow", "unfollow", "join", "leave", "postback", "unsend"}

\* A loop that throws on an event type it has no handler for
SkipUnknownEvent_Raises ==
    /\ pc = "line_events"
    /\ idx <= Len(JsonParse(req.raw).events)
    /\ CurrentEvent.type \notin LineEventTypes
    /\ CatchAnswers500
    /\ UNCHANGED <<storeVars, histVars, env, accessTokenCache, now, calls>>

\* the else branch of the loop: handler not implemented
SkipUnknownEvent ==
    /\ pc = "line_events"
    /\ idx <= Len(JsonParse(req.raw).events)
    /\ CurrentEvent.type \notin LineEventTypes
    /\ NextEvent
    /\ UNCHANGED <<storeVars, histVars, env, accessTokenCache, now, calls>>

\* after the loop: res.status(200).send('OK')
LineRespond ==
    /\ pc = "line_events"
    /\ idx > Len(JsonParse(req.raw).events)
    /\ pc' = "done"
    /\ res' = Response(200, "OK")
    /\ UNCHANGED <<storeVars, histVars, env, accessTokenCache, now, req, idx, calls>>

\* The mark an exception leaves in the history: the call that raised it
RaiseCall(ev, from) == [fn |-> "throw", ev |-> ev, from |-> from]

\* The handlers whose last statement is `await sendLineReply(...)`
ReachesReply(e) ==
    \/ e.type = "message" /\ ~MessageEventDropped(e)
    \/ e.type \in {"follow", "join"}
    \/ e.type = "postback" /\ e.payload

\* What such a handler has done when it calls sendLineReply: [cache, calls]
UpToReply(ev, e, provider, tokenOutcome, postOutcome) ==
    CASE e.type = "message" ->
            MessageEventResult(ev, e, provider, tokenOutcome, postOutcome)
      [] e.type = "follow" -> ReplyOnly(ev, e, FollowReply)
      [] e.type = "join" -> ReplyOnly(ev, e, JoinReply)
      [] OTHER -> ReplyOnly(ev, e, PostbackReply(e.text))

\* A handler whose sendLineReply is the rejecting double of the test suite
\* (sendLineReply.mockRejectedValue): the rejection is not caught by the
\* handler and leaves the loop
HandlerReplyRejected(provider, tokenOutcome, postOutcome) ==
    /\ pc = "line_events"
    /\ idx <= Len(JsonParse(req.raw).events)
    /\ ReachesReply(CurrentEvent)
    /\ LET r == UpToReply(idx, CurrentEvent, provider, tokenOutcome, postOutcome)
       IN  /\ calls' = Append(calls \o r.calls, RaiseCall(idx, "sendLineReply"))
           /\ accessTokenCache' = r.cache
    /\ CatchAnswers500
    /\ UNCHANGED <<storeVars, histVars, env, now>>

\* relayToWeChat whose translateToChinese is the rejecting double of the
\* test suite (translateToChinese.mockRejectedValue): the catch of
\* relayToWeChat logs the error and returns false
RelayToWeChatCaught(ev, lineUserId, message) ==
    LET wechatUserId == GetWeChatUserFromLine(lineUserId)
        lookup == LookupCall(ev, "getWeChatUserFromLine", lineUserId, wechatUserId)
    IN  IF NoMapping(wechatUserId) \/ Falsy(message)
        THEN [success |-> FALSE, calls |-> <<lookup>>]
        ELSE [success |-> FALSE,
              calls |-> <<lookup, RaiseCall(ev, "translateToChinese")>>]

\* handleMessageEvent, case text, with that double: the relay, then the reply
HandlerTranslationRejected ==
    /\ InLineLoop("message")
    /\ ~MessageEventDropped(CurrentEvent)
    /\ CurrentEvent.msgType = "text"
    /\ LET e == CurrentEvent
           relay == RelayToWeChatCaught(idx, e.userId, e.text)
       IN  calls' = calls \o
               Append(relay.calls,
                      ReplyCall(idx, e.replyToken,
                                ReplyAfterRelay(relay.success, ForwardedReply,
                                                EchoReply(e.text))))
    /\ NextEvent
    /\ UNCHANGED <<storeVars, histVars, env, accessTokenCache, now>>

(***************************************************************************)
(* LINE sender (lineRelay.js)                                              *)
(***************************************************************************)
\* What the push request does
PushOutcomes == {"ok", "error"}

\* sendLinePush(to, message): "sent" (response.data is returned) or why it
\* returned null
SendLinePush(e, to, message, pushOutcome) ==
    IF Falsy(to) THEN "no-recipient"
    ELSE IF Falsy(message) THEN "no-message"
    ELSE IF Falsy(e.LINE_CHANNEL_ACCESS_TOKEN) THEN "no-access-token"
    ELSE IF pushOutcome = "ok" THEN "sent"
    ELSE "error"

\* sendLineReply(replyToken, message): "sent" (response.data is returned) or
\* why it returned null
SendLineReply(e, replyToken, message, replyOutcome) ==
    IF Falsy(replyToken) THEN "no-reply-token"
    ELSE IF Falsy(message) THEN "no-message"
    ELSE IF Falsy(e.LINE_CHANNEL_ACCESS_TOKEN) THEN "no-access-token"
    ELSE IF replyOutcome = "ok" THEN "sent"
    ELSE "error"

\* What axios.post does: a 2xx response, a response with an error status
\* (error.response is set), or no response at all (timeout, network)
LineApiOutcomes == {"ok", "api-error", "network-error"}

\* A catch block that lets the error of the request out
LineSendResult_Rethrows(status) ==
    [threw |-> status = "error",
     ret |-> IF status = "sent" THEN "response.data" ELSE NULL,
     posts |-> IF status \in {"sent", "error"} THEN 1 ELSE 0]

\* What the caller of sendLineReply / sendLinePush gets: the early returns
\* and the catch block return null, the try block returns response.data;
\* posts is the number of axios.post calls made
LineSendResult(status) ==
    [threw |-> FALSE,
     ret |-> IF status = "sent" THEN "response.data" ELSE NULL,
     posts |-> IF status \in {"sent", "error"} THEN 1 ELSE 0]

\* await sendLineReply(replyToken, message)
SendLineReplyCall(replyToken, message, replyOutcome) ==
    /\ prevOp' = lastOp
    /\ lastOp' = [op |-> "sendLineReply", a |-> replyToken, b |-> message,
                  ret |-> [outcome |-> replyOutcome,
                           result |-> LineSendResult(
                               SendLineReply(env, replyToken, message, replyOutcome))]]
    /\ UNCHANGED <<storeVars, relayVars>>

\* await sendLinePush(to, message)
SendLinePushCall(to, message, pushOutcome) ==
    /\ prevOp' = lastOp
    /\ lastOp' = [op |-> "sendLinePush", a |-> to, b |-> message,
                  ret |-> [outcome |-> pushOutcome,
                           result |-> LineSendResult(
                               SendLinePush(env, to, message, pushOutcome))]]
    /\ UNCHANGED <<storeVars, relayVars>>

(***************************************************************************)
(* WeChat Work webhook (wechatWebhook.js)                                  *)
(***************************************************************************)
\* The strings the signature is computed from, in the order Array.sort()
\* gives them (by UTF-16 code unit)
SortOrder ==
    <<"", "1700000000", "<doc>text</doc>", "<xml>text</xml>", "b64-opaque", "echostr-1", "nonce-1",
      WeComToken>>

Rank(str) == CHOOSE i \in 1..Len(SortOrder) : SortOrder[i] = str

\* [a, b, c, d].sort().join('')
SortJoin(a, b, c, d) ==
    LET sorted == SortSeq(<<a, b, c, d>>, LAMBDA x, y : Rank(x) < Rank(y))
    IN  sorted[1] \o sorted[2] \o sorted[3] \o sorted[4]

\* crypto.createHash('sha1').update(str).digest('hex'): lower-case hex, an
\* injective function of str
Sha1Hex(str) == [alg |-> "sha1", data |-> str, hexcase |-> "lower"]

\* A verifyWeComSignature that accepts every signature
VerifyWeComSignature_Always(signature, timestamp, nonce, token, encryptedMsg) == TRUE

\* A verifyWeComSignature that compares the digests without regard to case
VerifyWeComSignature_IgnoreCase(signature, timestamp, nonce, token, encryptedMsg) ==
    Sha1Hex(SortJoin(token, timestamp, nonce, encryptedMsg)).data = signature.data

\* verifyWeComSignature(signature, timestamp, nonce, token, encryptedMsg)
VerifyWeComSignature(signature, timestamp, nonce, token, encryptedMsg) ==
    Sha1Hex(SortJoin(token, timestamp, nonce, encryptedMsg)) = signature

\* An XML body: whether it is well-formed, whether its root is <xml>, and the
\* text of the child elements the handler reads ("" for an absent element)
XmlBody(wellFormed, hasRoot, encrypt, msgType, fromUserName, content) ==
    [wellFormed |-> wellFormed, hasRoot |-> hasRoot, Encrypt |-> encrypt,
     MsgType |-> msgType, FromUserName |-> fromUserName, Content |-> content]

MessageData(msgType, fromUserName, content) ==
    [MsgType |-> msgType, FromUserName |-> fromUserName, Content |-> content]

\* decryptedResult.xml of a document that has no xml root: undefined
NoMessageData == MessageData("", "", "")

\* decryptAESMsg: returns the encrypted message as it is
DecryptAESMsg(encryptedMsg, aesKey) == encryptedMsg

\* parser.parseStringPromise of the "decrypted" text: a blob that is itself
\* the text of a message parses to it, a blob that is another XML document
\* parses to a result without xml, anything else raises
ParseDecrypted(text) ==
    IF text = "<xml>text</xml>"
    THEN [threw |-> FALSE,
          xml |-> MessageData("text", AllWeChatIds[1], "nihao")]
    ELSE IF text = "<doc>text</doc>"
    THEN [threw |-> FALSE, xml |-> NoMessageData]
    ELSE [threw |-> TRUE, xml |-> NoMessageData]

\* mockMessages[0]
MockMessage == MessageData("text", "wechat_test_user_1", "mock test message")

ImageNotification == "Image message from WeChat"
VoiceNotification == "Voice message from WeChat"

\* A relayToLine that does not stop on a missing mapping
NoLineMapping_Ignored(lineUserId) == FALSE

\* relayToLine: if (!lineUserId) return false
NoLineMapping(lineUserId) == Falsy(lineUserId)

\* relayToLine(wechatUserId, message, 'text'): the calls it makes
RelayToLine(wechatUserId, message, provider, pushOutcome) ==
    LET lineUserId == GetLineUserFromWeChat(wechatUserId)
        lookup == LookupCall(1, "getLineUserFromWeChat", wechatUserId, lineUserId)
        translatedMessage == TranslateToJapanese(env, message, "auto", provider).ret
    IN  IF NoLineMapping(lineUserId) \/ Falsy(message)
        THEN <<lookup>>
        ELSE <<lookup,
               TranslateCall(1, "translateToJapanese", message, translatedMessage),
               PushCall(lineUserId, translatedMessage,
                        SendLinePush(env, lineUserId, translatedMessage, pushOutcome))>>

\* processWeChatMessage(messageData): the calls it makes
ProcessWeChatMessage(messageData, provider, pushOutcome) ==
    <<ProcessCall(messageData)>> \o
    (IF messageData.MsgType = "text" /\ ~Falsy(messageData.Content)
     THEN RelayToLine(messageData.FromUserName, messageData.Content, provider, pushOutcome)
     ELSE IF messageData.MsgType = "image"
     THEN RelayToLine(messageData.FromUserName, ImageNotification, provider, pushOutcome)
     ELSE IF messageData.MsgType = "voice"
     THEN RelayToLine(messageData.FromUserName, VoiceNotification, provider, pushOutcome)
     ELSE <<>>)

\* if (messageData) await processWeChatMessage(messageData)
ProcessIfPresent(messageData, provider, pushOutcome) ==
    IF messageData = NoMessageData THEN <<>>
    ELSE ProcessWeChatMessage(messageData, provider, pushOutcome)

\* A mode check that lets unencrypted messages through everywhere
IsTestMode_Always(e) == TRUE

\* router.post('/'): unencrypted messages are allowed in these modes only
IsTestMode(e) == e.NODE_ENV = "test" \/ e.NODE_ENV = "development"

\* router.post('/'): result.xml is there
HasXmlRoot(xml) == xml.hasRoot

\* res.set('Content-Type', 'text/xml'); res.send(body)
XmlResponse(body) == [status |-> 200, body |-> body, contentType |-> "text/xml"]

\* A router.post('/') that verifies the signature before it looks at the
\* structure of the document
WeChatPostVerdict_SignatureFirst(e, r) ==
    LET xml == r.body
        isTestMode == IsTestMode(e)
    IN  IF Falsy(e.WECOM_CALLBACK_TOKEN) \/ Falsy(e.WECOM_AES_KEY)
        THEN Response(500, "Server configuration error")
        ELSE IF ~xml.wellFormed THEN Response(500, "Internal Server Error")
        ELSE IF ~VerifyWeComSignature(r.msg_signature, r.timestamp, r.nonce,
                                      e.WECOM_CALLBACK_TOKEN, xml.Encrypt)
        THEN Response(403, "Forbidden")
        ELSE IF ~HasXmlRoot(xml) THEN Response(400, "Bad Request")
        ELSE IF Falsy(xml.Encrypt) /\ ~isTestMode THEN Response(400, "Bad Request")
        ELSE IF Falsy(xml.Encrypt) /\ (Falsy(xml.MsgType) \/ Falsy(xml.FromUserName))
        THEN Response(400, "Bad Request")
        ELSE NoRes

\* router.post('/'), from the credentials check to the signature check:
\* "next", or the response it returns
WeChatPostVerdict(e, r) ==
    LET xml == r.body
        isTestMode == IsTestMode(e)
    IN  IF Falsy(e.WECOM_CALLBACK_TOKEN) \/ Falsy(e.WECOM_AES_KEY)
        THEN Response(500, "Server configuration error")
        ELSE IF ~xml.wellFormed THEN Response(500, "Internal Server Error")
        ELSE IF ~HasXmlRoot(xml) THEN Response(400, "Bad Request")
        ELSE IF Falsy(xml.Encrypt) /\ ~isTestMode THEN Response(400, "Bad Request")
        ELSE IF Falsy(xml.Encrypt) /\ (Falsy(xml.MsgType) \/ Falsy(xml.FromUserName))
        THEN Response(400, "Bad Request")
        ELSE IF ~VerifyWeComSignature(r.msg_signature, r.timestamp, r.nonce,
                                      e.WECOM_CALLBACK_TOKEN, xml.Encrypt)
        THEN Response(403, "Forbidden")
        ELSE NoRes

\* A POST to /webhook/wechat arrives: the checks before the message is processed
WeChatReceive(msg_signature, timestamp, nonce, body) ==
    LET r == [platform |-> "wechat", msg_signature |-> msg_signature,
              timestamp |-> timestamp, nonce |-> nonce, body |-> body]
        verdict == WeChatPostVerdict(env, r)
    IN  /\ pc = "idle"
        /\ req' = r
        /\ calls' = <<>>
        /\ idx' = 1
        /\ res' = verdict
        /\ pc' = IF verdict = NoRes THEN "wechat_message" ELSE "done"
        /\ UNCHANGED <<storeVars, histVars, env, accessTokenCache, now>>

\* A catch that falls back to the mock message in every environment
MockFallback_Always(e, provider, pushOutcome) ==
    ProcessWeChatMessage(MockMessage, provider, pushOutcome)

\* The fallback of the catch around decryption
MockFallback(e, provider, pushOutcome) ==
    IF e.NODE_ENV = "development" \/ e.WECOM_MOCK_MESSAGES = "true"
       \/ e.NODE_ENV = "test"
    THEN ProcessWeChatMessage(MockMessage, provider, pushOutcome)
    ELSE <<>>

\* An inner try without its catch: the decryption error leaves it
ProcessPosted_NoCatch(e, xml, provider, pushOutcome) ==
    LET parsed == ParseDecrypted(DecryptAESMsg(xml.Encrypt, e.WECOM_AES_KEY))
    IN  IF ~Falsy(xml.Encrypt)
        THEN IF parsed.threw
             THEN [threw |-> TRUE, calls |-> <<>>]
             ELSE [threw |-> FALSE,
                   calls |-> ProcessIfPresent(parsed.xml, provider, pushOutcome)]
        ELSE [threw |-> FALSE,
              calls |-> ProcessWeChatMessage(
                            MessageData(xml.MsgType, xml.FromUserName, xml.Content),
                            provider, pushOutcome)]

\* router.post('/'), the inner try / catch: decrypt, parse, process, with the
\* mock fallback on an error; the calls made, and whether an exception leaves it
ProcessPosted(e, xml, provider, pushOutcome) ==
    LET parsed == ParseDecrypted(DecryptAESMsg(xml.Encrypt, e.WECOM_AES_KEY))
    IN  IF ~Falsy(xml.Encrypt)
        THEN IF parsed.threw
             THEN [threw |-> FALSE, calls |-> MockFallback(e, provider, pushOutcome)]
             ELSE [threw |-> FALSE,
                   calls |-> ProcessIfPresent(parsed.xml, provider, pushOutcome)]
        ELSE [threw |-> FALSE,
              calls |-> ProcessWeChatMessage(
                            MessageData(xml.MsgType, xml.FromUserName, xml.Content),
                            provider, pushOutcome)]

\* router.post('/'), after the signature check: the inner try / catch, then
\* the empty XML answer, or the 500 of the outer catch
WeChatProcess(provider, pushOutcome) ==
    LET result == ProcessPosted(env, req.body, provider, pushOutcome)
    IN  /\ pc = "wechat_message"
        /\ calls' = result.calls
        /\ res' = IF result.threw
                  THEN Response(500, "Internal Server Error")
                  ELSE XmlResponse("<xml></xml>")
        /\ pc' = "done"
        /\ UNCHANGED <<storeVars, histVars, env, accessTokenCache, now, req, idx>>

\* A verification handler that asks for the callback token only
WeChatGetVerdict_KeyUnchecked(e, r) ==
    IF Falsy(e.WECOM_CALLBACK_TOKEN)
    THEN Response(500, "Server configuration error")
    ELSE IF VerifyWeComSignature(r.msg_signature, r.timestamp, r.nonce,
                                 e.WECOM_CALLBACK_TOKEN, r.echostr)
    THEN Response(200, r.echostr)
    ELSE Response(403, "Forbidden")

\* router.get('/'): the response to the URL verification request
WeChatGetVerdict(e, r) ==
    IF Falsy(e.WECOM_CALLBACK_TOKEN) \/ Falsy(e.WECOM_AES_KEY)
    THEN Response(500, "Server configuration error")
    ELSE IF VerifyWeComSignature(r.msg_signature, r.timestamp, r.nonce,
                                 e.WECOM_CALLBACK_TOKEN, r.echostr)
    THEN Response(200, r.echostr)
    ELSE Response(403, "Forbidden")

\* A GET to /webhook/wechat arrives and is answered
WeChatVerification(msg_signature, timestamp, nonce, echostr) ==
    LET r == [platform |-> "wechat-get", msg_signature |-> msg_signature,
              timestamp |-> timestamp, nonce |-> nonce, echostr |-> echostr]
    IN  /\ pc = "idle"
        /\ req' = r
        /\ calls' = <<>>
        /\ idx' = 1
        /\ res' = WeChatGetVerdict(env, r)
        /\ pc' = "done"
        /\ UNCHANGED <<storeVars, histVars, env, accessTokenCache, now>>

\* The response has been sent: the process waits for the next request
RequestDone ==
    /\ pc = "done"
    /\ pc' = "idle"
    /\ req' = NoReq
    /\ idx' = 1
    /\ calls' = <<>>
    /\ res' = NoRes
    /\ UNCHANGED <<storeVars, histVars, env, accessTokenCache, now>>

(***************************************************************************)
(* The relay: requests served one after the other by one process           *)
(***************************************************************************)
MaxEvents == 2

MappedLineUser == AllLineIds[1]
UnmappedLineUser == AllLineIds[2]
MappedWeChatUser == AllWeChatIds[1]

LineEvents ==
    {LineEvent("message", TRUE, "text", "hello", MappedLineUser, "rt-text"),
     LineEvent("message", TRUE, "text", "hello", UnmappedLineUser, "rt-unmapped"),
     LineEvent("message", TRUE, "image", "", MappedLineUser, "rt-image"),
     LineEvent("message", TRUE, "image", "", UnmappedLineUser, "rt-image2"),
     LineEvent("message", TRUE, "video", "", MappedLineUser, "rt-video"),
     LineEvent("message", TRUE, "video", "", UnmappedLineUser, "rt-video2"),
     LineEvent("message", TRUE, "audio", "", MappedLineUser, "rt-audio"),
     LineEvent("message", TRUE, "file", "report.pdf", UnmappedLineUser, "rt-file"),
     LineEvent("message", TRUE, "location", "Tokyo Tower", MappedLineUser, "rt-location"),
     LineEvent("message", TRUE, "contact", "", MappedLineUser, "rt-contact"),
     LineEvent("message", TRUE, "text", "hello", MappedLineUser, NULL),
     LineEvent("message", FALSE, NULL, NULL, MappedLineUser, "rt-nomsg"),
     LineEvent("message", TRUE, "text", "hello", NULL, "rt-nouser"),
     LineEvent("follow", FALSE, NULL, NULL, UnmappedLineUser, "rt-follow"),
     LineEvent("unfollow", FALSE, NULL, NULL, UnmappedLineUser, NULL),
     LineEvent("join", FALSE, NULL, NULL, NULL, "rt-join"),
     LineEvent("leave", FALSE, NULL, NULL, NULL, NULL),
     LineEvent("postback", TRUE, NULL, "buy", MappedLineUser, "rt-postback"),
     LineEvent("postback", FALSE, NULL, NULL, MappedLineUser, "rt-badpostback"),
     LineEvent("unsend", TRUE, NULL, NULL, MappedLineUser, NULL),
     LineEvent("beacon", FALSE, NULL, NULL, MappedLineUser, "rt-beacon")}

\* The events that follow the first one of an envelope: one that is relayed,
\* one that is only answered, one whose handler throws
TrailingEvents ==
    {LineEvent("message", TRUE, "text", "hello", MappedLineUser, "rt-text"),
     LineEvent("message", TRUE, "video", "", MappedLineUser, "rt-video"),
     LineEvent("postback", FALSE, NULL, NULL, MappedLineUser, "rt-badpostback")}

\* The envelopes: no event, an event of any kind alone or followed by one
\* trailing event, or up to MaxEvents trailing events in a row
LineEnvelopes ==
    {<<>>} \cup
    {<<e>> \o tail : e \in LineEvents,
                     tail \in {<<>>} \cup {<<t>> : t \in TrailingEvents}} \cup
    UNION {[1..n -> TrailingEvents] : n \in 1..MaxEvents}

\* The JSON bodies a LINE request carries: no events field, or an envelope
LineBodies ==
    {[hasEvents |-> FALSE, events |-> <<>>]} \cup
    {[hasEvents |-> TRUE, events |-> es] : es \in LineEnvelopes}

\* What a request's X-Line-Signature header may hold: nothing, the platform's
\* signature of the bytes sent, or a signature under another key
LineSignatures(raw) ==
    {NoSignature, HmacSha256Base64(LineSecret, raw),
     HmacSha256Base64("another-secret", raw)}

WeChatBodies ==
    {XmlBody(FALSE, FALSE, "", "", "", ""),
     XmlBody(TRUE, FALSE, "", "", "", ""),
     XmlBody(TRUE, TRUE, "b64-opaque", "", "", ""),
     XmlBody(TRUE, TRUE, "<xml>text</xml>", "", "", ""),
     XmlBody(TRUE, TRUE, "<doc>text</doc>", "", "", ""),
     XmlBody(TRUE, TRUE, "", "text", AllWeChatIds[1], "nihao"),
     XmlBody(TRUE, TRUE, "", "text", AllWeChatIds[2], "nihao"),
     XmlBody(TRUE, TRUE, "", "image", AllWeChatIds[1], ""),
     XmlBody(TRUE, TRUE, "", "", "", "")}

\* What a request's msg_signature may hold: the platform's signature, another
\* digest, or nothing
WeChatSignatures(timestamp, nonce, body) ==
    {Sha1Hex(SortJoin(WeComToken, timestamp, nonce, body.Encrypt)),
     Sha1Hex("forged"),
     [alg |-> NULL, data |-> "", hexcase |-> "lower"]}

EchoStrs == {"echostr-1", ""}

\* msg_signature of a verification request: the platform's digest, the same
\* digest in upper-case hex, another digest, or nothing
WeChatGetSignatures(timestamp, nonce, echostr) ==
    {Sha1Hex(SortJoin(WeComToken, timestamp, nonce, echostr)),
     [Sha1Hex(SortJoin(WeComToken, timestamp, nonce, echostr)) EXCEPT !.hexcase = "upper"],
     Sha1Hex("forged"),
     [alg |-> NULL, data |-> "", hexcase |-> "lower"]}

Init ==
    /\ lineToChatMappings = MapForward(EmptyMap, MappedLineUser, MappedWeChatUser)
    /\ wechatToLineMappings = MapReverse(EmptyMap, MappedLineUser, MappedWeChatUser)
    /\ groupMappings = EmptyMap
    /\ userProfiles = EmptyMap
    /\ prevOp = NoOp
    /\ lastOp = [op |-> "mapLineToWeChat", a |-> MappedLineUser,
                 b |-> MappedWeChatUser, ret |-> TRUE]
    /\ env \in EnvConfigs
    /\ now = ExpiresInMs
    /\ accessTokenCache \in
           {EmptyCache, [token |-> "cached-token", expiresAt |-> now + ExpiresInMs]}
    /\ pc = "idle"
    /\ req = NoReq
    /\ idx = 1
    /\ calls = <<>>
    /\ res = NoRes

Next ==
    \/ \E json \in LineBodies, canonical \in BOOLEAN :
          \E signature \in LineSignatures(RawBody(json, canonical)) :
             LineReceive(json, canonical, signature)
    \/ \E provider \in ProviderOutcomes, tokenOutcome \in TokenOutcomes,
          postOutcome \in PostOutcomes :
             HandleMessageEvent(provider, tokenOutcome, postOutcome)
    \/ HandleFollowEvent
    \/ HandleUnfollowEvent
    \/ HandleJoinEvent
    \/ HandleLeaveEvent
    \/ HandlePostbackEvent
    \/ HandleUnsendEvent
    \/ SkipUnknownEvent
    \/ LineRespond
    \/ \E body \in WeChatBodies :
          \E msg_signature \in WeChatSignatures("1700000000", "nonce-1", body) :
             WeChatReceive(msg_signature, "1700000000", "nonce-1", body)
    \/ \E provider \in ProviderOutcomes, pushOutcome \in PushOutcomes :
          WeChatProcess(provider, pushOutcome)
    \/ \E echostr \in EchoStrs :
          \E msg_signature \in WeChatGetSignatures("1700000000", "nonce-1", echostr) :
             WeChatVerification(msg_signature, "1700000000", "nonce-1", echostr)
    \/ RequestDone

Spec == Init /\ [][Next]_vars

(***************************************************************************)
(* The mapping store on its own: any sequence of mapLineToWeChat and       *)
(* removeMapping calls on a store that starts empty (constructor())        *)
(***************************************************************************)
StoreInit ==
    /\ lineToChatMappings = EmptyMap
    /\ wechatToLineMappings = EmptyMap
    /\ groupMappings = EmptyMap
    /\ userProfiles = EmptyMap
    /\ prevOp = NoOp
    /\ lastOp = NoOp
    /\ env = ProdEnv
    /\ now = ExpiresInMs
    /\ accessTokenCache = EmptyCache
    /\ pc = "idle"
    /\ req = NoReq
    /\ idx = 1
    /\ calls = <<>>
    /\ res = NoRes

StoreNext ==
    \/ \E a \in LineIds \cup {""}, b \in WeChatIds \cup {""} : MapLineToWeChat(a, b)
    \/ \E a \in LineIds : RemoveMapping(a)

StoreSpec == StoreInit /\ [][StoreNext]_vars

(***************************************************************************)
(* Store mutations statement by statement, interleaved with in-flight      *)
(* relays. pc is the statement the running store call is at ("idle": no    *)
(* store call is on the stack), req holds its arguments. A relay is in     *)
(* flight from its lookup to its send; it gives up the thread only at its  *)
(* awaits, and a store call has no await.                                  *)
(***************************************************************************)
StoreCall(a, b) == [platform |-> "store", a |-> a, b |-> b]

\* A runtime that resumes a task while another function is on the stack
MayRun_Preemptive == TRUE

\* The event loop starts or resumes a task only when the stack is empty:
\* mapLineToWeChat and removeMapping are synchronous and await nothing
MayRun == pc = "idle"

\* mapLineToWeChat, up to and including lineToChatMappings.set
MapSetForward(lineUserId, wechatUserId) ==
    /\ pc = "idle"
    /\ lineToChatMappings' = MapForward(lineToChatMappings, lineUserId, wechatUserId)
    /\ pc' = "mapLineToWeChat"
    /\ req' = StoreCall(lineUserId, wechatUserId)
    /\ UNCHANGED <<wechatToLineMappings, groupMappings, userProfiles, histVars,
                   env, accessTokenCache, now, idx, calls, res>>

\* mapLineToWeChat, from wechatToLineMappings.set to return true
MapSetReverse ==
    /\ pc = "mapLineToWeChat"
    /\ wechatToLineMappings' = MapReverse(wechatToLineMappings, req.a, req.b)
    /\ pc' = "idle"
    /\ req' = NoReq
    /\ prevOp' = lastOp
    /\ lastOp' = [op |-> "mapLineToWeChat", a |-> req.a, b |-> req.b, ret |-> TRUE]
    /\ UNCHANGED <<lineToChatMappings, groupMappings, userProfiles,
                   env, accessTokenCache, now, idx, calls, res>>

\* removeMapping, up to and including lineToChatMappings.delete; without a
\* mapping it returns false at once
RemoveDeleteForward(lineUserId) ==
    /\ pc = "idle"
    /\ IF lineUserId \in DOMAIN lineToChatMappings
       THEN /\ lineToChatMappings' = MapDelete(lineToChatMappings, lineUserId)
            /\ pc' = "removeMapping"
            /\ req' = StoreCall(lineUserId, lineToChatMappings[lineUserId].wechatUserId)
            /\ UNCHANGED histVars
       ELSE /\ prevOp' = lastOp
            /\ lastOp' = [op |-> "removeMapping", a |-> lineUserId, b |-> NULL,
                          ret |-> FALSE]
            /\ UNCHANGED <<lineToChatMappings, pc, req>>
    /\ UNCHANGED <<wechatToLineMappings, groupMappings, userProfiles,
                   env, accessTokenCache, now, idx, calls, res>>

\* removeMapping, from wechatToLineMappings.delete to return true
RemoveDeleteReverse ==
    /\ pc = "removeMapping"
    /\ wechatToLineMappings' = MapDelete(wechatToLineMappings, req.b)
    /\ pc' = "idle"
    /\ req' = NoReq
    /\ prevOp' = lastOp
    /\ lastOp' = [op |-> "removeMapping", a |-> req.a, b |-> req.b, ret |-> TRUE]
    /\ UNCHANGED <<lineToChatMappings, groupMappings, userProfiles,
                   env, accessTokenCache, now, idx, calls, res>>

\* relayToWeChat of relay ev, from its call to its first await: the lookup,
\* and the return when there is no mapping. Relays are numbered as they start.
RelayLookup(ev, lineUserId) ==
    /\ MayRun
    /\ ev = Len(CallsOf("getWeChatUserFromLine")) + 1
    /\ calls' = Append(calls, LookupCall(ev, "getWeChatUserFromLine", lineUserId,
                                         GetWeChatUserFromLine(lineUserId)))
    /\ UNCHANGED <<storeVars, histVars, env, accessTokenCache, now, pc, req, idx, res>>

\* relayToWeChat of relay ev resumed after an await: translateToChinese has
\* answered, or sendWeComMessage has, for the id the lookup returned
RelayResume(ev) ==
    LET mine == CallsEv(ev)
    IN  /\ MayRun
        /\ mine # <<>>
        /\ ~NoMapping(mine[1].ret)
        /\ Len(mine) < 3
        /\ calls' = Append(calls,
                IF Len(mine) = 1
                THEN TranslateCall(ev, "translateToChinese", "konnichiwa", "nihao")
                ELSE WeComCall(ev, mine[1].ret, "nihao", "text", "sent"))
        /\ UNCHANGED <<storeVars, histVars, env, accessTokenCache, now, pc, req, idx, res>>

InterleavingInit ==
    /\ lineToChatMappings = EmptyMap
    /\ wechatToLineMappings = EmptyMap
    /\ groupMappings = EmptyMap
    /\ userProfiles = EmptyMap
    /\ prevOp = NoOp
    /\ lastOp = NoOp
    /\ env = ProdEnv
    /\ now = ExpiresInMs
    /\ accessTokenCache = EmptyCache
    /\ pc = "idle"
    /\ req = NoReq
    /\ idx = 1
    /\ calls = <<>>
    /\ res = NoRes

InterleavingNext ==
    \/ \E b \in {AllWeChatIds[1], AllWeChatIds[2]} : MapSetForward(AllLineIds[1], b)
    \/ MapSetReverse
    \/ RemoveDeleteForward(AllLineIds[1])
    \/ RemoveDeleteReverse
    \/ \E ev \in 1..MaxEvents : RelayLookup(ev, AllLineIds[1])
    \/ \E ev \in 1..MaxEvents : RelayResume(ev)

InterleavingSpec == InterleavingInit /\ [][InterleavingNext]_vars

(***************************************************************************)
(* The LINE sender on its own: any sequence of sendLineReply and           *)
(* sendLinePush calls, with and without a channel access token             *)
(***************************************************************************)
LineSenderEnvs ==
    {ProdEnv,
     [ProdEnv EXCEPT !.LINE_CHANNEL_ACCESS_TOKEN = NULL],
     [ProdEnv EXCEPT !.LINE_CHANNEL_ACCESS_TOKEN = ""]}

\* Reply tokens and recipients, and messages (a text or a message object)
Recipients == {"reply-token-1", "", NULL}
LineMessages == {"konnichiwa", "<message object>", "", NULL}

LineSenderInit ==
    /\ lineToChatMappings = EmptyMap
    /\ wechatToLineMappings = EmptyMap
    /\ groupMappings = EmptyMap
    /\ userProfiles = EmptyMap
    /\ prevOp = NoOp
    /\ lastOp = NoOp
    /\ env \in LineSenderEnvs
    /\ now = ExpiresInMs
    /\ accessTokenCache = EmptyCache
    /\ pc = "idle"
    /\ req = NoReq
    /\ idx = 1
    /\ calls = <<>>
    /\ res = NoRes

LineSenderNext ==
    \/ \E replyToken \in Recipients, message \in LineMessages,
          replyOutcome \in LineApiOutcomes :
            SendLineReplyCall(replyToken, message, replyOutcome)
    \/ \E to \in Recipients, message \in LineMessages,
          pushOutcome \in LineApiOutcomes :
            SendLinePushCall(to, message, pushOutcome)

LineSenderSpec == LineSenderInit /\ [][LineSenderNext]_vars

(***************************************************************************)
(* Static configuration and group mappings: USER_MAPPINGS is loaded into   *)
(* the new store, and groups are mapped at runtime                         *)
(***************************************************************************)
LineGroupIds == {"line_test_group_1", "line_group_2"}
WeChatGroupIds == {"wechat_test_group_1", "wechat_group_2"}

\* Elements of the users list: two complete entries, an object without
\* wechatUserId, an object with neither id, the number 42, null
UserEntries ==
    {[type |-> "object", lineUserId |-> AllLineIds[1], wechatUserId |-> AllWeChatIds[1]],
     [type |-> "object", lineUserId |-> AllLineIds[2], wechatUserId |-> AllWeChatIds[2]],
     [type |-> "object", lineUserId |-> AllLineIds[1]],
     [type |-> "object"],
     [type |-> "number"],
     [type |-> "null"]}

\* Elements of the groups list
GroupEntries ==
    {[type |-> "object", lineGroupId |-> "line_test_group_1",
                         wechatGroupId |-> "wechat_test_group_1"],
     [type |-> "object", lineGroupId |-> "line_group_2",
                         wechatGroupId |-> "wechat_test_group_1"],
     [type |-> "object", wechatGroupId |-> "wechat_group_2"],
     [type |-> "null"]}

ListsOf(entries) == UNION {[1..n -> entries] : n \in 0..MaxEntries}

\* Values of process.env.USER_MAPPINGS
MappingConfigs ==
    {[kind |-> "unset"], [kind |-> "invalid"], [kind |-> "json"]}
    \cup {[kind |-> "json", users |-> u] : u \in ListsOf(UserEntries)}
    \cup {[kind |-> "json", groups |-> g] : g \in ListsOf(GroupEntries)}
    \cup {[kind |-> "json", users |-> u, groups |-> g] :
             u \in ListsOf(UserEntries), g \in ListsOf(GroupEntries)}

ConfigInit ==
    /\ lineToChatMappings = EmptyMap
    /\ wechatToLineMappings = EmptyMap
    /\ groupMappings = EmptyMap
    /\ userProfiles = EmptyMap
    /\ prevOp = NoOp
    /\ lastOp = NoOp
    /\ env = ProdEnv
    /\ now = ExpiresInMs
    /\ accessTokenCache = EmptyCache
    /\ pc = "idle"
    /\ req = NoReq
    /\ idx = 1
    /\ calls = <<>>
    /\ res = NoRes

\* The configuration is loaded once, into the store as constructed
AtStartup == lastOp = NoOp

ConfigNext ==
    \/ \E mappingConfig \in MappingConfigs :
           AtStartup /\ LoadMappingsFromConfig(mappingConfig)
    \/ \E a \in LineGroupIds \cup {""}, b \in WeChatGroupIds \cup {""} : MapGroups(a, b)

ConfigSpec == ConfigInit /\ [][ConfigNext]_vars

(***************************************************************************)
(* Auto-mapping: profiles of a LINE user and of a WeChat user are stored   *)
(* and replaced, and attemptAutoMapping is called on the two               *)
(***************************************************************************)
\* The display names: "Alice", "alice", "alica", "alices", "bob" and the
\* empty name
DisplayNames ==
    {<<"A", "l", "i", "c", "e">>,
     <<"a", "l", "i", "c", "e">>,
     <<"a", "l", "i", "c", "a">>,
     <<"a", "l", "i", "c", "e", "s">>,
     <<"b", "o", "b">>,
     <<>>}

\* The profiles stored: one per display name, and one without displayName
Profiles ==
    {[displayName |-> name] : name \in DisplayNames} \cup {[pictureUrl |-> "url"]}

ProfileInit ==
    /\ lineToChatMappings = EmptyMap
    /\ wechatToLineMappings = EmptyMap
    /\ groupMappings = EmptyMap
    /\ userProfiles = EmptyMap
    /\ prevOp = NoOp
    /\ lastOp = NoOp
    /\ env = ProdEnv
    /\ now = ExpiresInMs
    /\ accessTokenCache = EmptyCache
    /\ pc = "idle"
    /\ req = NoReq
    /\ idx = 1
    /\ calls = <<>>
    /\ res = NoRes

ProfileNext ==
    \/ \E profile \in Profiles : StoreUserProfile("line", AllLineIds[1], profile)
    \/ \E profile \in Profiles : StoreUserProfile("wechat", AllWeChatIds[1], profile)
    \/ AttemptAutoMapping(AllLineIds[1], AllWeChatIds[1])
    \/ RemoveMapping(AllLineIds[1])

ProfileSpec == ProfileInit /\ [][ProfileNext]_vars

(***************************************************************************)
(* The translation service on its own: any sequence of translateToChinese  *)
(* and translateToJapanese calls, under each provider configuration        *)
(***************************************************************************)
TranslationEnvs ==
    {ProdEnv,
     [ProdEnv EXCEPT !.OPENAI_API_KEY = NULL],
     [ProdEnv EXCEPT !.NODE_ENV = "test"],
     [ProdEnv EXCEPT !.TRANSLATION_PROVIDER = "mock"]}

Texts == {"", NULL, UNDEFINED, NotAString, "hello", "konnichiwa"}
SourceLangs == {"auto", "zh-CN", "zh", "ja", "en"}

\* the call in flight and what it handed back
TranslationReq(fn, text, sourceLang, targetLang, provider) ==
    [platform |-> "translationService", fn |-> fn, text |-> text,
     sourceLang |-> sourceLang, targetLang |-> targetLang, provider |-> provider]
TranslationRes(result) ==
    [status |-> IF result.threw THEN "threw" ELSE "returned", body |-> result.ret]

TranslateToChineseCall(text, sourceLang, provider) ==
    /\ pc = "idle"
    /\ LET result == TranslateToChinese(env, text, sourceLang, provider) IN
          /\ req' = TranslationReq("translateToChinese", text, sourceLang, "zh-CN", provider)
          /\ calls' = result.calls
          /\ res' = TranslationRes(result)
    /\ pc' = "done"
    /\ UNCHANGED <<storeVars, histVars, env, accessTokenCache, now, idx>>

TranslateToJapaneseCall(text, sourceLang, provider) ==
    /\ pc = "idle"
    /\ LET result == TranslateToJapanese(env, text, sourceLang, provider) IN
          /\ req' = TranslationReq("translateToJapanese", text, sourceLang, "ja", provider)
          /\ calls' = result.calls
          /\ res' = TranslationRes(result)
    /\ pc' = "done"
    /\ UNCHANGED <<storeVars, histVars, env, accessTokenCache, now, idx>>

TranslationInit ==
    /\ lineToChatMappings = EmptyMap
    /\ wechatToLineMappings = EmptyMap
    /\ groupMappings = EmptyMap
    /\ userProfiles = EmptyMap
    /\ prevOp = NoOp
    /\ lastOp = NoOp
    /\ env \in TranslationEnvs
    /\ now = ExpiresInMs
    /\ accessTokenCache = EmptyCache
    /\ pc = "idle"
    /\ req = NoReq
    /\ idx = 1
    /\ calls = <<>>
    /\ res = NoRes

TranslationNext ==
    \/ \E text \in Texts, sourceLang \in SourceLangs,
          provider \in {"ok"} \cup ProviderFailures :
             TranslateToChineseCall(text, sourceLang, provider)
    \/ \E text \in Texts, sourceLang \in SourceLangs,
          provider \in {"ok"} \cup ProviderFailures :
             TranslateToJapaneseCall(text, sourceLang, provider)
    \/ RequestDone

TranslationSpec == TranslationInit /\ [][TranslationNext]_vars

(***************************************************************************)
(* The LINE webhook with the reply sender replaced by a double that may    *)
(* reject, as the test suite does: the shipped sendLineReply catches every *)
(* error of its own and returns null                                       *)
(***************************************************************************)
ReplyFaultInit ==
    /\ lineToChatMappings = MapForward(EmptyMap, MappedLineUser, MappedWeChatUser)
    /\ wechatToLineMappings = MapReverse(EmptyMap, MappedLineUser, MappedWeChatUser)
    /\ groupMappings = EmptyMap
    /\ userProfiles = EmptyMap
    /\ prevOp = NoOp
    /\ lastOp = [op |-> "mapLineToWeChat", a |-> MappedLineUser,
                 b |-> MappedWeChatUser, ret |-> TRUE]
    /\ env = ProdEnv
    /\ now = ExpiresInMs
    /\ accessTokenCache = EmptyCache
    /\ pc = "idle"
    /\ req = NoReq
    /\ idx = 1
    /\ calls = <<>>
    /\ res = NoRes

ReplyFaultNext ==
    \/ \E json \in LineBodies, canonical \in BOOLEAN :
          \E signature \in LineSignatures(RawBody(json, canonical)) :
             LineReceive(json, canonical, signature)
    \/ \E provider \in ProviderOutcomes, tokenOutcome \in TokenOutcomes,
          postOutcome \in PostOutcomes :
             HandleMessageEvent(provider, tokenOutcome, postOutcome)
    \/ \E provider \in ProviderOutcomes, tokenOutcome \in TokenOutcomes,
          postOutcome \in PostOutcomes :
             HandlerReplyRejected(provider, tokenOutcome, postOutcome)
    \/ HandlerTranslationRejected
    \/ HandleFollowEvent
    \/ HandleUnfollowEvent
    \/ HandleJoinEvent
    \/ HandleLeaveEvent
    \/ HandlePostbackEvent
    \/ HandleUnsendEvent
    \/ SkipUnknownEvent
    \/ LineRespond
    \/ RequestDone

ReplyFaultSpec == ReplyFaultInit /\ [][ReplyFaultNext]_vars

(***************************************************************************)
(* The WeChat Work sender on its own: getWeComAccessToken and              *)
(* sendWeComMessage called one after the other while the clock advances,   *)
(* starting from the empty cache of a fresh module; calls is the log of    *)
(* these calls                                                             *)
(***************************************************************************)
MaxTokenCalls == 3

\* the log entry of a getWeComAccessToken call
TokenCall(t, before, result) ==
    [fn |-> "getWeComAccessToken", at |-> t, before |-> before,
     fetched |-> result.fetched, outcome |-> IF result.threw THEN "threw" ELSE "returned",
     token |-> result.token, after |-> result.cache]

\* the log entry of a sendWeComMessage call: the token it sent with, what the
\* send request answered, and the cache it left
SendCall(t, before, tok, sent) ==
    [fn |-> "sendWeComMessage", at |-> t, before |-> before,
     fetched |-> tok.fetched, outcome |-> sent.outcome,
     token |-> tok.token, after |-> sent.cache]

GetWeComAccessTokenCall(tokenOutcome) ==
    /\ Len(calls) < MaxTokenCalls
    /\ LET result == GetWeComAccessToken(env, accessTokenCache, now, tokenOutcome) IN
          /\ accessTokenCache' = result.cache
          /\ calls' = Append(calls, TokenCall(now, accessTokenCache, result))
    /\ UNCHANGED <<storeVars, histVars, env, now, pc, req, idx, res>>

SendWeComMessageCall(tokenOutcome, postOutcome) ==
    /\ Len(calls) < MaxTokenCalls
    /\ LET tok == GetWeComAccessToken(env, accessTokenCache, now, tokenOutcome)
           sent == SendWeComMessage(env, accessTokenCache, now, "nihao",
                                    MappedWeChatUser, "", tokenOutcome, postOutcome)
       IN  /\ accessTokenCache' = sent.cache
           /\ calls' = Append(calls, SendCall(now, accessTokenCache, tok, sent))
    /\ UNCHANGED <<storeVars, histVars, env, now, pc, req, idx, res>>

\* The instants around the expiry of the cached token at which Date.now()
\* is read next
Instants(cache) ==
    {cache.expiresAt - TokenBufferMs - 1, cache.expiresAt - TokenBufferMs,
     cache.expiresAt - 1, cache.expiresAt, cache.expiresAt + 1}

\* Time passes
Tick(t) ==
    /\ t > now
    /\ now' = t
    /\ UNCHANGED <<storeVars, histVars, env, accessTokenCache, pc, req, idx, calls, res>>

TokenInit ==
    /\ lineToChatMappings = EmptyMap
    /\ wechatToLineMappings = EmptyMap
    /\ groupMappings = EmptyMap
    /\ userProfiles = EmptyMap
    /\ prevOp = NoOp
    /\ lastOp = NoOp
    /\ env = ProdEnv
    /\ now = ExpiresInMs
    /\ accessTokenCache = EmptyCache
    /\ pc = "idle"
    /\ req = NoReq
    /\ idx = 1
    /\ calls = <<>>
    /\ res = NoRes

TokenNext ==
    \/ \E tokenOutcome \in TokenOutcomes : GetWeComAccessTokenCall(tokenOutcome)
    \/ \E tokenOutcome \in TokenOutcomes, postOutcome \in PostOutcomes :
          SendWeComMessageCall(tokenOutcome, postOutcome)
    \/ \E t \in Instants(accessTokenCache) : Tick(t)

TokenSpec == TokenInit /\ [][TokenNext]_vars

(***************************************************************************)
(* Claims about the translation service (checked under TranslationSpec)    *)
(***************************************************************************)
\* a translateToChinese / translateToJapanese call has returned or thrown
Translated == req.platform = "translationService" /\ pc = "done"
\* the call reached the chat-completion API
LiveProviderCalled == \E k \in 1..Len(calls) : calls[k].fn = "axios.post"

\* C11: when the translation provider fails (authentication error, rate
\* limit, timeout, malformed or empty response), translateToChinese and
\* translateToJapanese return the original text unchanged: they never throw
\* and never return an empty string for a non-empty input.
C11_FailureReturnsInput ==
    (/\ Translated
     /\ IsString(req.text) /\ req.text # ""
     /\ LiveProviderCalled /\ req.provider \in ProviderFailures)
        => /\ res.status = "returned"
           /\ res.body = req.text
           /\ res.body # ""

\* C12: for every language L and every text t, translating t from source
\* language L to target language L returns t unchanged and makes no call to
\* the provider, live or mock.
C12_SameLanguageShortCircuit ==
    (Translated /\ IsString(req.text) /\ req.sourceLang = req.targetLang)
        => /\ res = [status |-> "returned", body |-> req.text]
           /\ calls = <<>>

\* C12 witness: a Japanese-to-Japanese call on a non-empty text with a live
\* provider that would have translated it.
C12_Witness ==
    /\ Translated /\ req.fn = "translateToJapanese"
    /\ req.text = "hello" /\ req.sourceLang = "ja"
    /\ req.provider = "ok" /\ env = ProdEnv
    /\ res.body = "hello"

\* C13 as stated: translate called with an empty or absent text (empty
\* string, null, undefined) returns its input unchanged, makes no provider
\* call and raises no error.
C13_EmptyReturnedUnchanged ==
    (Translated /\ req.text \in {"", NULL, UNDEFINED})
        => /\ res = [status |-> "returned", body |-> req.text]
           /\ calls = <<>>

\* C13 as amended: translate called with an empty or absent text (empty
\* string, null, undefined) returns the empty string, makes no provider call
\* and raises no error.
C13_EmptyGivesEmptyString ==
    (Translated /\ req.text \in {"", NULL, UNDEFINED})
        => /\ res = [status |-> "returned", body |-> ""]
           /\ calls = <<>>

\* C13 witness: translateToChinese(undefined) under a live provider has
\* returned the empty string.
C13_Witness ==
    /\ Translated /\ req.fn = "translateToChinese"
    /\ req.text = UNDEFINED /\ env = ProdEnv
    /\ res.body = ""

(***************************************************************************)
(* Claims about the webhooks (checked under Spec)                          *)
(***************************************************************************)
IsLine == req.platform = "line"
IsWeChat == req.platform = "wechat"
Events == JsonParse(req.raw).events
\* the handler of event i has returned
Handled(i) == idx > i
\* a message event that passes the field checks of handleMessageEvent
CompleteMessage(e, msgType) ==
    e.type = "message" /\ ~MessageEventDropped(e) /\ e.msgType = msgType
Mapped(lineUserId) == lineUserId \in DOMAIN lineToChatMappings
SendSucceeded(i) ==
    \E k \in 1..Len(calls) :
        calls[k].fn = "sendWeComMessage" /\ calls[k].ev = i /\ calls[k].outcome = "sent"
SendFailed(i) ==
    \E k \in 1..Len(calls) :
        calls[k].fn = "sendWeComMessage" /\ calls[k].ev = i /\ calls[k].outcome # "sent"

\* C1: for a LINE text message from user u mapped to WeChat user w, with
\* translation t' and a successful send, the relay makes exactly one
\* sendWeComMessage whose touser is w and whose content is t', and afterwards
\* exactly one reply on the event's reply token with the forward confirmation.
C1_DirectedSendThenConfirm ==
    IsLine =>
        \A i \in 1..Len(Events) :
            LET e == Events[i]
                cs == CallsEv(i)
                sends == CallsOfEv("sendWeComMessage", i)
                translations == CallsOfEv("translateToChinese", i)
                replies == CallsOfEv("sendLineReply", i)
            IN  (Handled(i) /\ CompleteMessage(e, "text") /\ Mapped(e.userId)
                 /\ SendSucceeded(i))
                    => /\ Len(sends) = 1
                       /\ Len(translations) = 1
                       /\ sends[1].touser = lineToChatMappings[e.userId].wechatUserId
                       /\ sends[1].content = translations[1].ret
                       /\ replies = <<ReplyCall(i, e.replyToken, ForwardedReply)>>
                       /\ cs[Len(cs)].fn = "sendLineReply"

\* C2: a message from an unmapped sender never reaches the sender for the
\* opposite platform (no sendWeComMessage for a LINE message, no sendLinePush
\* for a WeChat message); a LINE text message from an unmapped sender gets
\* exactly one reply on its reply token, the echo of its text.
C2_UnmappedNeverSent ==
    /\ IsLine =>
        \A i \in 1..Len(Events) :
            LET e == Events[i] IN
            (Handled(i) /\ e.type = "message" /\ ~MessageEventDropped(e)
             /\ ~Mapped(e.userId))
                => /\ CallsOfEv("sendWeComMessage", i) = <<>>
                   /\ e.msgType = "text" =>
                        CallsOfEv("sendLineReply", i) =
                            <<ReplyCall(i, e.replyToken, EchoReply(e.text))>>
    /\ IsWeChat =>
        \A k \in 1..Len(calls) :
            (calls[k].fn = "processWeChatMessage"
             /\ calls[k].messageData.FromUserName \notin DOMAIN wechatToLineMappings)
                => CallsOf("sendLinePush") = <<>>

\* C2 witness: an answered envelope with a handled text message of an
\* unmapped sender.
C2_Witness ==
    /\ IsLine /\ pc = "done" /\ res.status = 200
    /\ \E i \in 1..Len(Events) :
          /\ Handled(i) /\ CompleteMessage(Events[i], "text")
          /\ ~Mapped(Events[i].userId)
          /\ Len(CallsOfEv("sendLineReply", i)) = 1

\* C3: for a LINE text message from a mapped sender whose send to WeChat
\* fails, the sender gets exactly one reply on the event's reply token, the
\* echo of the text, and an envelope handled to its end is answered 200.
C3_SendFailureEchoes ==
    IsLine =>
        /\ \A i \in 1..Len(Events) :
              LET e == Events[i] IN
              (Handled(i) /\ CompleteMessage(e, "text") /\ Mapped(e.userId)
               /\ SendFailed(i))
                  => CallsOfEv("sendLineReply", i) =
                         <<ReplyCall(i, e.replyToken, EchoReply(e.text))>>
        /\ (pc = "done" /\ idx > Len(Events)
            /\ \E i \in 1..Len(Events) : SendFailed(i))
               => res = Response(200, "OK")

\* C3 witness: an envelope answered 200 whose text message was translated,
\* whose send failed on an authentication errcode, and which was echoed.
C3_Witness ==
    /\ IsLine /\ pc = "done" /\ res.status = 200
    /\ \E i \in 1..Len(Events) :
          /\ CompleteMessage(Events[i], "text") /\ Mapped(Events[i].userId)
          /\ \E k \in 1..Len(calls) :
                /\ calls[k].fn = "sendWeComMessage" /\ calls[k].ev = i
                /\ calls[k].outcome = "40014"
          /\ Len(CallsOfEv("translateToChinese", i)) = 1
          /\ Len(CallsOfEv("sendLineReply", i)) = 1

\* C4: in an accepted LINE envelope in which the handling of one event fails,
\* every other event is still handled and the response is 200.
C4_EnvelopeIsolation ==
    (IsLine /\ pc = "done" /\ res.status \notin {401}
     /\ res # Response(500, "Server configuration error")
     /\ JsonParse(req.raw).hasEvents)
        => /\ res.status = 200
           /\ \A i \in 1..Len(Events) : i # idx => Handled(i)

\* the LINE request in flight fails the comparison of validateLineSignature
LineSignatureFails ==
    /\ IsLine
    /\ env.DISABLE_SIGNATURE_VALIDATION # "true"
    /\ ~Falsy(env.LINE_CHANNEL_SECRET)
    /\ req.signature # HmacSha256Base64(env.LINE_CHANNEL_SECRET,
                                        JsonStringify(JsonParse(req.raw)))

\* the WeChat POST in flight carries a msg_signature other than the SHA1 of
\* the sorted token, timestamp, nonce and Encrypt text
WeChatSignatureFails ==
    /\ IsWeChat
    /\ ~Falsy(env.WECOM_CALLBACK_TOKEN) /\ ~Falsy(env.WECOM_AES_KEY)
    /\ req.msg_signature # Sha1Hex(SortJoin(env.WECOM_CALLBACK_TOKEN, req.timestamp,
                                            req.nonce, req.body.Encrypt))

\* the body of the WeChat POST passes the checks made before the signature
WeChatBodyAccepted ==
    /\ req.body.wellFormed /\ req.body.hasRoot
    /\ \/ ~Falsy(req.body.Encrypt)
       \/ /\ env.NODE_ENV \in {"test", "development"}
          /\ ~Falsy(req.body.MsgType) /\ ~Falsy(req.body.FromUserName)

\* C5: a request that fails signature verification (LINE: answered 401;
\* WeChat POST: answered 403) triggers no event processing: no mapping
\* lookup, no translation, no outbound send and no reply.
C5_RejectedNotProcessed ==
    /\ LineSignatureFails =>
          pc = "done" /\ res = Response(401, "Unauthorized") /\ calls = <<>>
    /\ WeChatSignatureFails =>
          /\ pc = "done" /\ calls = <<>> /\ res.status \in {400, 403, 500}
          /\ WeChatBodyAccepted => res = Response(403, "Forbidden")

\* C5 witness: a WeChat POST with a relayable message of a mapped sender and
\* a forged msg_signature, answered 403.
C5_Witness ==
    /\ WeChatSignatureFails /\ WeChatBodyAccepted
    /\ req.body.Encrypt = "<xml>text</xml>"
    /\ res.status = 403

\* C6: the LINE verifier accepts every request whose X-Line-Signature is the
\* base64 HMAC-SHA256, under the channel secret, of the raw body bytes as
\* transmitted, also when those bytes differ from the re-serialized body.
C6_VerifiesRawBytes ==
    (/\ IsLine
     /\ env.DISABLE_SIGNATURE_VALIDATION # "true"
     /\ ~Falsy(env.LINE_CHANNEL_SECRET)
     /\ req.signature = HmacSha256Base64(env.LINE_CHANNEL_SECRET, req.raw))
        => res.status # 401

\* the callback token and the AES key are configured
WeChatConfigured == ~Falsy(env.WECOM_CALLBACK_TOKEN) /\ ~Falsy(env.WECOM_AES_KEY)

\* the document of the WeChat POST parsed and has the xml root
WeChatBodyParsed == req.body.wellFormed /\ req.body.hasRoot

\* the messages handed to processWeChatMessage while serving the request
Processed == CallsOf("processWeChatMessage")

\* C14: WeChat GET handshake with callback token and AES key configured: the
\* response is 200 with body exactly echostr if and only if msg_signature
\* equals, case-sensitively, the SHA1 hex digest of the sorted concatenation
\* of token, timestamp, nonce and echostr; any other msg_signature (absent,
\* wrong, or differing only in letter case) yields 403 without the echostr.
C14_HandshakeEchoesIffSigned ==
    (req.platform = "wechat-get" /\ WeChatConfigured) =>
        LET expected == Sha1Hex(SortJoin(env.WECOM_CALLBACK_TOKEN, req.timestamp,
                                         req.nonce, req.echostr))
        IN  /\ (res = Response(200, req.echostr)) <=> (req.msg_signature = expected)
            /\ req.msg_signature # expected => res = Response(403, "Forbidden")

\* C14 witness: a handshake whose msg_signature is the right digest in
\* upper-case hex, answered 403.
C14_Witness ==
    /\ req.platform = "wechat-get" /\ WeChatConfigured
    /\ req.echostr = "echostr-1"
    /\ req.msg_signature.hexcase = "upper"
    /\ req.msg_signature.data =
           SortJoin(env.WECOM_CALLBACK_TOKEN, req.timestamp, req.nonce, req.echostr)
    /\ res.status = 403

\* C15: a WeChat POST with valid configuration, an Encrypt element and a
\* valid signature is answered with status 200, the body '<xml></xml>' and
\* the XML content type, whatever decryption, the mapping lookup, the
\* translation or the LINE push do; no other status is ever set for it.
C15_EncryptedAlwaysEmptyXml ==
    (/\ IsWeChat /\ WeChatConfigured /\ WeChatBodyParsed
     /\ ~Falsy(req.body.Encrypt)
     /\ req.msg_signature = Sha1Hex(SortJoin(env.WECOM_CALLBACK_TOKEN, req.timestamp,
                                             req.nonce, req.body.Encrypt)))
        => res = IF pc = "done" THEN XmlResponse("<xml></xml>") ELSE NoRes

\* C15 witness: an encrypted POST whose decrypted text does not parse,
\* outside the test modes, answered with the empty XML document.
C15_Witness ==
    /\ IsWeChat /\ pc = "done"
    /\ req.body.Encrypt = "b64-opaque"
    /\ env.NODE_ENV = "production"
    /\ res = XmlResponse("<xml></xml>")

\* C16: a WeChat POST whose XML carries no Encrypt element is rejected with
\* 400 and no message is processed unless unencrypted mode is enabled
\* (NODE_ENV is test or development); with no mode set it is always rejected.
C16_UnencryptedRejected ==
    (/\ IsWeChat /\ WeChatConfigured /\ WeChatBodyParsed
     /\ Falsy(req.body.Encrypt)
     /\ env.NODE_ENV \notin {"test", "development"})
        => /\ pc = "done"
           /\ res = Response(400, "Bad Request")
           /\ calls = <<>>

\* C16 witness: with NODE_ENV unset, a correctly signed unencrypted text
\* message of a mapped sender is answered 400.
C16_Witness ==
    /\ IsWeChat /\ env.NODE_ENV = NULL /\ WeChatConfigured
    /\ req.body.MsgType = "text" /\ req.body.FromUserName = MappedWeChatUser
    /\ req.msg_signature = Sha1Hex(SortJoin(env.WECOM_CALLBACK_TOKEN, req.timestamp,
                                            req.nonce, ""))
    /\ res.status = 400

C18_UnmappedWeChatSilent ==
    (/\ IsWeChat /\ pc = "done"
     /\ \E k \in 1..Len(Processed) :
           Processed[k].messageData.FromUserName \notin DOMAIN wechatToLineMappings)
        => /\ CallsOf("sendLinePush") = <<>>
           /\ CallsOf("sendLineReply") = <<>>
           /\ CallsOf("sendWeComMessage") = <<>>
           /\ CallsOf("translateToJapanese") = <<>>
           /\ CallsOf("translateToChinese") = <<>>
           /\ res = XmlResponse("<xml></xml>")

\* C18 witness: a text message with content from an unmapped WeChat user was
\* processed and answered.
C18_Witness ==
    /\ IsWeChat /\ pc = "done"
    /\ Len(Processed) = 1
    /\ Processed[1].messageData.MsgType = "text"
    /\ Processed[1].messageData.Content = "nihao"
    /\ Processed[1].messageData.FromUserName = AllWeChatIds[2]
    /\ AllWeChatIds[2] \notin DOMAIN wechatToLineMappings
    /\ res.status = 200

\* C19: for a WeChat text message with non-empty content from a sender
\* mapped to LINE user l, the relay translates the content to Japanese and
\* issues exactly one LINE push, addressed to l and carrying the translated
\* text; no reply-token reply is used.
C19_OnePushToMappedUser ==
    (IsWeChat /\ pc = "done") =>
        \A k \in 1..Len(Processed) :
            LET m == Processed[k].messageData
                translations == CallsOf("translateToJapanese")
                pushes == CallsOf("sendLinePush")
            IN  (/\ m.MsgType = "text" /\ ~Falsy(m.Content)
                 /\ m.FromUserName \in DOMAIN wechatToLineMappings)
                    => /\ Len(translations) = 1
                       /\ translations[1].text = m.Content
                       /\ Len(pushes) = 1
                       /\ pushes[1].to = wechatToLineMappings[m.FromUserName].lineUserId
                       /\ pushes[1].message = translations[1].ret
                       /\ pushes[1].outcome \in {"sent", "error"}
                       /\ CallsOf("sendLineReply") = <<>>

\* C20: the events of one LINE envelope are handled strictly in envelope
\* order: every call made for event i, its relay and its reply included,
\* comes before every call made for event i+1, no call is made for an event
\* the loop has not finished, and each reply is the last call of its event
\* and goes to that event's reply token.
C20_EnvelopeOrder ==
    IsLine =>
        /\ \A j, k \in 1..Len(calls) : j < k => calls[j].ev <= calls[k].ev
        /\ \A k \in 1..Len(calls) :
              /\ calls[k].ev < idx
              /\ calls[k].fn = "sendLineReply" =>
                    /\ calls[k].replyToken = Events[calls[k].ev].replyToken
                    /\ \A j \in (k+1)..Len(calls) : calls[j].ev > calls[k].ev

\* C20 witness: an envelope of two events in which the relay and the reply
\* of the first and the reply of the second have been made.
C20_Witness ==
    /\ IsLine /\ Len(Events) = 2 /\ idx = 3
    /\ Len(CallsOfEv("sendWeComMessage", 1)) = 1
    /\ Len(CallsOfEv("sendLineReply", 1)) = 1
    /\ Len(CallsOfEv("sendLineReply", 2)) = 1
    /\ Events[1].replyToken # Events[2].replyToken

\* C21 (checked under ReplyFaultSpec): when sendLineReply raises while an
\* event of a LINE envelope is being handled, the webhook answers 500
\* 'Internal Server Error'.
C21_ReplyErrorIs500 ==
    (IsLine /\ \E k \in 1..Len(calls) : calls[k] = RaiseCall(calls[k].ev, "sendLineReply"))
        => /\ pc = "done"
           /\ res = Response(500, "Internal Server Error")

\* the reply to a relayed text message raised, after the send to WeChat Work
C21_Witness ==
    /\ IsLine /\ pc = "done"
    /\ Len(calls) > 0 /\ calls[Len(calls)] = RaiseCall(1, "sendLineReply")
    /\ Len(CallsOfEv("sendWeComMessage", 1)) = 1
    /\ Len(CallsOfEv("sendLineReply", 1)) = 1
    /\ res.status = 500

\* the request in flight needs a credential the configuration lacks
CredentialMissing ==
    \/ /\ IsLine
       /\ env.DISABLE_SIGNATURE_VALIDATION # "true"
       /\ Falsy(env.LINE_CHANNEL_SECRET)
    \/ /\ req.platform \in {"wechat", "wechat-get"}
       /\ ~WeChatConfigured

\* C22: when a required credential is missing (the LINE channel secret with
\* the bypass off; the WeChat callback token or AES key, GET and POST alike)
\* the webhook answers 500 whatever signature the request carries, before
\* any signature verdict or event processing; the failure ends that request
\* only: the process goes back to waiting for requests, its configuration,
\* mapping store and token cache untouched.
C22_MissingCredentialIs500 ==
    /\ [](CredentialMissing =>
             /\ pc = "done"
             /\ res = Response(500, "Server configuration error")
             /\ calls = <<>>)
    /\ [][CredentialMissing =>
             /\ pc' = "idle"
             /\ UNCHANGED <<env, storeVars, accessTokenCache>>]_vars

\* a LINE envelope signed by the platform, received without a channel secret
C22_Witness ==
    /\ IsLine /\ CredentialMissing
    /\ req.signature = HmacSha256Base64(LineSecret, req.raw)
    /\ req.raw = JsonStringify(JsonParse(req.raw))
    /\ Len(Events) > 0
    /\ res.status = 500

\* the LINE request in flight has no X-Line-Signature, or one that was not
\* made with the channel secret
InvalidLineSignature == IsLine /\ req.signature.key # LineSecret

\* the middleware turned the LINE request away
LineRejected ==
    /\ pc = "done"
    /\ res \in {Response(401, "Unauthorized"),
                Response(500, "Server configuration error")}
    /\ calls = <<>>

\* C23: the signature bypass is off by default: a LINE request with an invalid
\* or missing X-Line-Signature is accepted and processed only when
\* DISABLE_SIGNATURE_VALIDATION is 'true'; with the flag unset or holding any
\* other value it is rejected.
C23_BypassOnlyWhenTrue ==
    InvalidLineSignature =>
        (LineRejected <=> env.DISABLE_SIGNATURE_VALIDATION # "true")

\* an unsigned envelope with a relayable message, flag 'false': answered 401
C23_Witness ==
    /\ InvalidLineSignature /\ req.signature = NoSignature
    /\ env.DISABLE_SIGNATURE_VALIDATION = "false"
    /\ Len(Events) > 0 /\ CompleteMessage(Events[1], "text") /\ Mapped(Events[1].userId)
    /\ res = Response(401, "Unauthorized")

\* the calls a relay attempt is made of
RelayCalls(i) ==
    SelectSeq(calls, LAMBDA c : c.ev = i /\ c.fn \in {"getWeChatUserFromLine",
                                                      "translateToChinese",
                                                      "sendWeComMessage"})

AdminEventTypes == {"follow", "unfollow", "join", "leave", "postback", "unsend"}

\* the text handleFollowEvent / handleJoinEvent / handlePostbackEvent reply with
AdminReply(e) ==
    CASE e.type = "follow" -> FollowReply
      [] e.type = "join" -> JoinReply
      [] OTHER -> PostbackReply(e.text)

\* C26: administrative LINE events (follow, unfollow, join, leave, postback,
\* unsend) never consult the mapping store, never call the translation service
\* and never send to WeChat Work; follow, join and postback produce exactly
\* one reply, on the reply token of the event, once their handler has
\* returned, and unfollow, leave and unsend produce no reply.
C26_AdminEventsReplyOnly ==
    IsLine => \A i \in 1..Len(Events) :
        Events[i].type \in AdminEventTypes =>
            /\ RelayCalls(i) = <<>>
            /\ (Events[i].type \in {"follow", "join", "postback"} /\ Handled(i)) =>
                  CallsOfEv("sendLineReply", i) =
                      <<ReplyCall(i, Events[i].replyToken, AdminReply(Events[i]))>>
            /\ Events[i].type \in {"unfollow", "leave", "unsend"} =>
                  CallsOfEv("sendLineReply", i) = <<>>

\* a postback of a mapped user answered once with its data, nothing relayed
C26_Witness ==
    /\ IsLine /\ Len(Events) > 0 /\ Handled(1)
    /\ Events[1].type = "postback" /\ Mapped(Events[1].userId)
    /\ CallsEv(1) = <<ReplyCall(1, "rt-postback", PostbackReply("buy"))>>

\* the acknowledgement handleMessageEvent sends for a message it does not relay
Acknowledgement(e) ==
    CASE e.msgType = "video" -> VideoReply
      [] e.msgType = "audio" -> AudioReply
      [] e.msgType = "file" -> FileReply(e.text)
      [] e.msgType = "location" -> LocationReply(e.text)
      [] OTHER -> UnknownMessageReply

\* C27: for the LINE message kinds without relay support (video, audio, file,
\* location) no relay is attempted (no mapping lookup, no translation, no
\* send to WeChat Work), whether or not the sender is mapped, and the sender
\* gets exactly one acknowledgement reply.
C27_UnsupportedKindsAcknowledged ==
    IsLine => \A i \in 1..Len(Events) :
        (\E k \in {"video", "audio", "file", "location"} : CompleteMessage(Events[i], k)) =>
            /\ RelayCalls(i) = <<>>
            /\ Handled(i) =>
                  CallsEv(i) = <<ReplyCall(i, Events[i].replyToken,
                                           Acknowledgement(Events[i]))>>

\* a location message of a mapped user: acknowledged, not relayed
C27_Witness ==
    /\ IsLine /\ Len(Events) > 0 /\ Handled(1)
    /\ CompleteMessage(Events[1], "location") /\ Mapped(Events[1].userId)
    /\ CallsEv(1) = <<ReplyCall(1, "rt-location", LocationReply("Tokyo Tower"))>>

MessageTypes == {"text", "image", "video", "audio", "file", "location", "sticker"}

\* an event of a type the loop has no branch for
UnknownEvent(e) == e.type \notin LineEventTypes

\* a message of a type the switch of handleMessageEvent has no case for
UnknownMessage(e) ==
    e.type = "message" /\ ~MessageEventDropped(e) /\ e.msgType \notin MessageTypes

\* C28: unknown LINE event types and unknown message types never raise: an
\* unknown event is skipped with no reply, an unknown message type gets
\* exactly one generic acknowledgement reply and no relay; in both cases the
\* loop goes on to the remaining events, and an envelope made of such events
\* is answered 200.
C28_UnknownKindsTolerated ==
    /\ [](IsLine => \A i \in 1..Len(Events) :
            /\ UnknownEvent(Events[i]) => CallsEv(i) = <<>>
            /\ UnknownMessage(Events[i]) =>
                  /\ RelayCalls(i) = <<>>
                  /\ Handled(i) =>
                        CallsEv(i) = <<ReplyCall(i, Events[i].replyToken,
                                                 UnknownMessageReply)>>
            /\ (UnknownEvent(Events[i]) \/ UnknownMessage(Events[i])) =>
                  ~(pc = "done" /\ idx = i /\ res = Response(500, "Internal Server Error"))
            /\ (/\ pc = "done" /\ idx > 1
                /\ \A j \in 1..Len(Events) :
                      UnknownEvent(Events[j]) \/ UnknownMessage(Events[j])) =>
                  res = Response(200, "OK"))
    /\ [][(/\ pc = "line_events" /\ idx <= Len(Events)
           /\ UnknownEvent(Events[idx]) \/ UnknownMessage(Events[idx])) =>
              (pc' = "line_events" /\ idx' = idx + 1)]_vars

\* an event of unknown type skipped, and the text message after it relayed
\* and answered; the envelope is answered 200
C28_Witness ==
    /\ IsLine /\ Len(Events) = 2 /\ pc = "done"
    /\ UnknownEvent(Events[1]) /\ CallsEv(1) = <<>>
    /\ CompleteMessage(Events[2], "text")
    /\ Len(CallsOfEv("sendWeComMessage", 2)) = 1
    /\ Len(CallsOfEv("sendLineReply", 2)) = 1
    /\ res = Response(200, "OK")

\* a message event without its message data, source user id or reply token
LacksField(e) ==
    e.type = "message" /\ (~e.payload \/ Falsy(e.userId) \/ Falsy(e.replyToken))

\* C29: a LINE message event that lacks its message data, its source user id
\* or its reply token is dropped: no mapping lookup, translation, send to
\* WeChat Work or reply is made for it, no error is raised (the loop goes on
\* to the next event), and an envelope of such events is answered 200.
C29_IncompleteMessageDropped ==
    /\ [](IsLine => \A i \in 1..Len(Events) : LacksField(Events[i]) =>
            /\ CallsEv(i) = <<>>
            /\ ~(pc = "done" /\ idx = i /\ res = Response(500, "Internal Server Error"))
            /\ (/\ pc = "done" /\ idx > 1
                /\ \A j \in 1..Len(Events) : LacksField(Events[j])) =>
                  res = Response(200, "OK"))
    /\ [][(pc = "line_events" /\ idx <= Len(Events) /\ LacksField(Events[idx])) =>
              (pc' = "line_events" /\ idx' = idx + 1 /\ calls' = calls)]_vars

\* a text message of a mapped user without reply token: nothing is called
\* for it, the message after it is relayed, the envelope is answered 200
C29_Witness ==
    /\ IsLine /\ Len(Events) = 2 /\ pc = "done"
    /\ Events[1].type = "message" /\ Events[1].msgType = "text"
    /\ Mapped(Events[1].userId) /\ Falsy(Events[1].replyToken)
    /\ CallsEv(1) = <<>>
    /\ Len(CallsOfEv("sendWeComMessage", 2)) = 1
    /\ res = Response(200, "OK")

Confirmations == {ForwardedReply, ImageForwardedReply, StickerForwardedReply}

\* C37: the forward-confirmation reply is sent only after the send to WeChat
\* for that same event has completed successfully: every confirmation reply
\* in the log comes after a successful sendWeComMessage of its event, so on
\* every other path (no mapping, translation raising an error, send failure
\* or exception) no confirmation reply is sent.
C37_ConfirmOnlyAfterSend ==
    IsLine =>
        \A k \in 1..Len(calls) :
            (calls[k].fn = "sendLineReply" /\ calls[k].message \in Confirmations)
                => \E j \in 1..(k - 1) :
                      /\ calls[j].fn = "sendWeComMessage"
                      /\ calls[j].ev = calls[k].ev
                      /\ calls[j].outcome = "sent"

\* the translation of the first event raised and the event was echoed; the
\* second event was sent and then confirmed
C37_Witness ==
    /\ IsLine /\ Len(Events) = 2 /\ idx = 3
    /\ \E k \in 1..Len(calls) : calls[k] = RaiseCall(1, "translateToChinese")
    /\ CallsOfEv("sendLineReply", 1) =
           <<ReplyCall(1, Events[1].replyToken, EchoReply(Events[1].text))>>
    /\ SendSucceeded(2)
    /\ calls[Len(calls)] = ReplyCall(2, Events[2].replyToken, ForwardedReply)

\* the request is an encrypted WeChat POST that has been served past the
\* signature check
EncryptedServed ==
    /\ IsWeChat /\ pc = "done" /\ WeChatConfigured /\ WeChatBodyParsed
    /\ ~Falsy(req.body.Encrypt)
    /\ req.msg_signature = Sha1Hex(SortJoin(env.WECOM_CALLBACK_TOKEN, req.timestamp,
                                            req.nonce, req.body.Encrypt))

\* one of the settings that enable the mock fallback is in place
MockEnabled ==
    env.NODE_ENV \in {"test", "development"} \/ env.WECOM_MOCK_MESSAGES = "true"

\* what is processed and relayed when the payload yields no message: nothing
\* without the settings, else the mock message, once, whatever the payload
FallbackOutcome ==
    IF MockEnabled
    THEN /\ Len(Processed) = 1
         /\ Processed[1].messageData.MsgType = "text"
         /\ Processed[1].messageData.FromUserName = "wechat_test_user_1"
         /\ Processed[1].messageData.Content = "mock test message"
    ELSE calls = <<>>

\* C39 as stated: for an encrypted WeChat POST whose Encrypt payload cannot be
\* decrypted and parsed into a message (decryption or parsing raises, or the
\* parsed document holds no message): when neither NODE_ENV is 'test' or
\* 'development' nor WECOM_MOCK_MESSAGES is 'true', no message is processed
\* or relayed; when one of them is set, the fixed mock text message from
\* 'wechat_test_user_1' is processed instead, exactly once, and its content
\* does not depend on the inbound payload.
C39_NoMessageFallsBackToMock ==
    (EncryptedServed /\ req.body.Encrypt # "<xml>text</xml>") => FallbackOutcome

\* C39 amended: for an encrypted WeChat POST whose Encrypt payload makes
\* decryption or parsing raise an error: when neither NODE_ENV is 'test' or
\* 'development' nor WECOM_MOCK_MESSAGES is 'true', no message is processed
\* or relayed; when one of them is set, the fixed mock text message from
\* 'wechat_test_user_1' is processed instead, exactly once, and its content
\* does not depend on the inbound payload.
C39_RaisingPayloadFallsBackToMock ==
    (EncryptedServed /\ req.body.Encrypt = "b64-opaque") => FallbackOutcome

\* with WECOM_MOCK_MESSAGES = 'true' outside the test modes, an opaque
\* payload was served by processing the mock message once
C39_Witness ==
    /\ EncryptedServed /\ req.body.Encrypt = "b64-opaque"
    /\ env.WECOM_MOCK_MESSAGES = "true" /\ env.NODE_ENV = "production"
    /\ Processed = <<ProcessCall(MockMessage)>>
    /\ res = XmlResponse("<xml></xml>")

\* C36: a LINE reply token is used for at most one reply: on every path of an
\* event (forward confirmation, echo fallback, acknowledgement, dropped
\* event, exception in the relay) sendLineReply is invoked at most once for
\* the event, and with the reply token of that event.
C36_OneReplyPerToken ==
    IsLine =>
        \A i \in 1..Len(Events) :
            /\ Len(CallsOfEv("sendLineReply", i)) <= 1
            /\ \A k \in 1..Len(CallsOfEv("sendLineReply", i)) :
                  CallsOfEv("sendLineReply", i)[k].replyToken = Events[i].replyToken

\* an envelope handled to its end: the first event, a message without a
\* field, was dropped without a reply, the second was forwarded and confirmed
\* with one reply
C36_Witness ==
    /\ IsLine /\ Len(Events) = 2 /\ pc = "done" /\ idx = 3
    /\ Events[1].type = "message" /\ MessageEventDropped(Events[1])
    /\ CallsOfEv("sendLineReply", 1) = <<>>
    /\ CompleteMessage(Events[2], "text") /\ SendSucceeded(2)
    /\ CallsOfEv("sendLineReply", 2) =
           <<ReplyCall(2, Events[2].replyToken, ForwardedReply)>>

(***************************************************************************)
(* Claims about the access token cache (checked under TokenSpec)           *)
(***************************************************************************)
\* entry k of the log is a getWeComAccessToken call
IsTokenCall(k) == calls[k].fn = "getWeComAccessToken"

\* cache holds a token and t is more than five minutes before its expiry
InValidityWindow(cache, t) ==
    cache.token # NULL /\ cache.expiresAt - t > TokenBufferMs

\* C24: getWeComAccessToken returns the cached token without a fetch exactly
\* when a token is cached and the current time is more than 5 minutes before
\* its expiry; otherwise it fetches, and caches the token fetched with the
\* expiry now + expires_in; so a token within 5 minutes of its expiry or past
\* it is never handed out from the cache, and of two consecutive calls the
\* second one inside the validity window of the first makes no fetch.
C24_CachedUntilFiveMinutesBeforeExpiry ==
    \A k \in 1..Len(calls) : IsTokenCall(k) =>
        LET c == calls[k] IN
        /\ ~c.fetched <=> InValidityWindow(c.before, c.at)
        /\ ~c.fetched =>
              /\ c.outcome = "returned"
              /\ c.token = c.before.token
              /\ c.after = c.before
              /\ c.at + TokenBufferMs < c.before.expiresAt
        /\ (c.fetched /\ c.outcome = "returned") =>
              /\ c.token # NULL
              /\ c.after = [token |-> c.token, expiresAt |-> c.at + ExpiresInMs]
        /\ (k < Len(calls) /\ IsTokenCall(k + 1) /\ c.outcome = "returned"
               /\ InValidityWindow(c.after, calls[k + 1].at)) =>
              /\ ~calls[k + 1].fetched
              /\ calls[k + 1].token = c.token

\* a fetch, a call one millisecond before the five-minute margin served from
\* the cache, and a call at the margin that fetches again
C24_Witness ==
    /\ Len(calls) = 3
    /\ \A k \in 1..3 : IsTokenCall(k) /\ calls[k].outcome = "returned"
    /\ calls[1].fetched /\ ~calls[2].fetched /\ calls[3].fetched
    /\ calls[2].at = calls[1].after.expiresAt - TokenBufferMs - 1
    /\ calls[3].at = calls[1].after.expiresAt - TokenBufferMs

\* entry k of the log is a send that WeChat Work rejected for authentication
AuthRejected(k) ==
    calls[k].fn = "sendWeComMessage" /\ calls[k].outcome \in {"40014", "42001"}

\* C25: when a send is rejected for authentication (40014 or 42001) the
\* cached token is invalidated and a token is fetched again: the rejection
\* leaves the cache empty, the next token request goes to the provider, and
\* whatever the cache hands out later was fetched after the rejection.
C25_RejectionInvalidatesToken ==
    \A k \in 1..Len(calls) : AuthRejected(k) =>
        /\ calls[k].after = EmptyCache
        /\ k = Len(calls) => accessTokenCache = EmptyCache
        /\ k < Len(calls) => calls[k + 1].fetched
        /\ \A m \in (k + 1)..Len(calls) :
              (~calls[m].fetched /\ calls[m].token # NULL) =>
                  \E j \in (k + 1)..(m - 1) :
                      /\ calls[j].fetched
                      /\ calls[j].token = calls[m].token

\* a send with the cached token rejected with 42001, then a token request
\* that goes to the provider
C25_Witness ==
    /\ Len(calls) = 3
    /\ IsTokenCall(1) /\ calls[1].fetched /\ calls[1].outcome = "returned"
    /\ AuthRejected(2) /\ ~calls[2].fetched /\ calls[2].token = calls[1].token
    /\ calls[2].outcome = "42001"
    /\ IsTokenCall(3) /\ calls[3].fetched /\ calls[3].outcome = "returned"

(***************************************************************************)
(* Claims about interleavings (checked under InterleavingSpec)             *)
(***************************************************************************)
\* the step is a relay resolving its sender
ResolveStep ==
    /\ Len(calls') = Len(calls) + 1
    /\ calls'[Len(calls')].fn = "getWeChatUserFromLine"

\* an update of the store has written (removed) one direction and not yet
\* the other
HalfApplied == pc \in {"mapLineToWeChat", "removeMapping"}

LineSend == lastOp.op \in {"sendLineReply", "sendLinePush"}

\* C34: sendLineReply and sendLinePush never throw: when the reply token or
\* recipient, the message, or the channel access token is missing they
\* return null without any HTTP call, and on any API or network error of
\* the HTTP call they return null.
C34_LineSenderNeverThrows ==
    LineSend =>
        /\ ~lastOp.ret.result.threw
        /\ Falsy(lastOp.a) \/ Falsy(lastOp.b) \/ Falsy(env.LINE_CHANNEL_ACCESS_TOKEN)
           => lastOp.ret.result.ret = NULL /\ lastOp.ret.result.posts = 0
        /\ lastOp.ret.result.posts = 1 /\ lastOp.ret.outcome # "ok"
           => lastOp.ret.result.ret = NULL

\* a reply whose request got no response returned null, after a push that
\* had no recipient and made no request
C34_Witness ==
    /\ lastOp.op = "sendLineReply"
    /\ lastOp.ret.outcome = "network-error"
    /\ lastOp.ret.result = [threw |-> FALSE, ret |-> NULL, posts |-> 1]
    /\ prevOp.op = "sendLinePush" /\ prevOp.a = NULL
    /\ prevOp.ret.result = [threw |-> FALSE, ret |-> NULL, posts |-> 0]

(***************************************************************************)
(* Claims about configuration and groups (checked under ConfigSpec)        *)
(***************************************************************************)
\* the entry has both ids of its list
WellFormed(entry, idA, idB) ==
    /\ entry.type = "object"
    /\ idA \in DOMAIN entry /\ idB \in DOMAIN entry

\* no later entry of the list is a well-formed entry for the same first id
LastFor(list, k, idA, idB) ==
    \A n \in (k + 1)..Len(list) :
        ~(WellFormed(list[n], idA, idB) /\ list[n][idA] = list[k][idA])

\* the users (groups) list of the configuration just loaded
LoadedList(name) ==
    IF lastOp.op = "loadMappingsFromConfig" /\ name \in DOMAIN lastOp.a
    THEN lastOp.a[name]
    ELSE <<>>

\* C32: loadFromConfig skips a malformed entry without aborting: every
\* well-formed user entry and every well-formed group entry of the
\* configuration is imported (its first id resolves to its second id, unless
\* a later entry of the list maps the first id again), whatever malformed
\* entries (missing ids, entries that are not objects) precede it, and no
\* error propagates from the call.
C32_MalformedEntriesSkipped ==
    lastOp.op = "loadMappingsFromConfig" =>
        /\ lastOp.ret = UNDEFINED
        /\ \A k \in 1..Len(LoadedList("users")) :
              LET entry == LoadedList("users")[k]
              IN  WellFormed(entry, "lineUserId", "wechatUserId")
                  /\ LastFor(LoadedList("users"), k, "lineUserId", "wechatUserId")
                  => GetWeChatUserFromLine(entry.lineUserId) = entry.wechatUserId
        /\ \A k \in 1..Len(LoadedList("groups")) :
              LET entry == LoadedList("groups")[k]
              IN  WellFormed(entry, "lineGroupId", "wechatGroupId")
                  /\ LastFor(LoadedList("groups"), k, "lineGroupId", "wechatGroupId")
                  => GetWeChatGroupFromLine(entry.lineGroupId) = entry.wechatGroupId

\* C33: group mappings keep the bijection invariant: after any sequence of
\* mapGroups calls, no two platform-A group ids resolve to the same
\* platform-B group id.
C33_GroupsOneToOne ==
    \A g1, g2 \in LineGroupIds :
        g1 # g2 /\ GetWeChatGroupFromLine(g1) # NULL
        => GetWeChatGroupFromLine(g1) # GetWeChatGroupFromLine(g2)

(***************************************************************************)
(* Claims about auto-mapping (checked under ProfileSpec)                   *)
(***************************************************************************)
\* the step is an attemptAutoMapping call (lastOp' is the call made)
AutoMapStep == lastOp'.op = "attemptAutoMapping"

\* both profiles of the call are stored
BothProfiles ==
    /\ <<"line", lastOp'.a>> \in DOMAIN userProfiles
    /\ <<"wechat", lastOp'.b>> \in DOMAIN userProfiles

\* 1 - distance / max(len) of the case-normalised display names of the call
NameSimilarity ==
    CalculateSimilarity(NormalisedName(GetUserProfile("line", lastOp'.a)),
                        NormalisedName(GetUserProfile("wechat", lastOp'.b)))

\* the call returned true and a and b resolve to each other after it, or it
\* returned false and left the mapping store as it was
AutoMapOutcome(expected) ==
    /\ lastOp'.ret = expected
    /\ expected => /\ GetWeChatUserFromLineIn(lineToChatMappings', lastOp'.a) = lastOp'.b
                   /\ GetLineUserFromWeChatIn(wechatToLineMappings', lastOp'.b) = lastOp'.a
    /\ ~expected => UNCHANGED <<lineToChatMappings, wechatToLineMappings, groupMappings>>

\* C31 as stated: attemptAutoMapping(a, b) returns true and creates the
\* mapping between a and b if and only if both profiles are stored and the
\* similarity of their case-normalised display names is at least 0.8;
\* otherwise it returns false and leaves the mapping store unchanged.
C31_MapsAtEightTenths ==
    [][AutoMapStep =>
         AutoMapOutcome(BothProfiles /\ NameSimilarity.den > 0
                        /\ 5 * NameSimilarity.num >= 4 * NameSimilarity.den)]_vars

\* C31 amended: ... if and only if both profiles are stored and the
\* similarity of their case-normalised display names is greater than 0.8.
C31_MapsAboveEightTenths ==
    [][AutoMapStep =>
         AutoMapOutcome(BothProfiles /\ NameSimilarity.den > 0
                        /\ 5 * NameSimilarity.num > 4 * NameSimilarity.den)]_vars

\* "Alice" and "alices" (similarity 5/6) were mapped to each other
C31_Witness ==
    /\ lastOp.op = "attemptAutoMapping" /\ lastOp.ret
    /\ GetUserProfile("line", lastOp.a) = [displayName |-> <<"A", "l", "i", "c", "e">>]
    /\ GetUserProfile("wechat", lastOp.b) = [displayName |-> <<"a", "l", "i", "c", "e", "s">>]
    /\ GetWeChatUserFromLine(lastOp.a) = lastOp.b
    /\ GetLineUserFromWeChat(lastOp.b) = lastOp.a

(***************************************************************************)
(* Claims about the user mapping store (checked under StoreSpec)           *)
(***************************************************************************)
LastMapped == lastOp.op = "mapLineToWeChat" /\ ~Falsy(lastOp.a) /\ ~Falsy(lastOp.b)

\* C7: after mapLineToWeChat(a, b) with non-empty ids, getWeChatUserFromLine(a)
\* returns b and getLineUserFromWeChat(b) returns a, whatever the store held
\* before the call.
C7_MapThenResolve ==
    LastMapped =>
        /\ lastOp.ret
        /\ GetWeChatUserFromLine(lastOp.a) = lastOp.b
        /\ GetLineUserFromWeChat(lastOp.b) = lastOp.a

\* C7 witness: a mapping call that overwrote the entries of an earlier call on
\* the same WeChat id and another LINE id.
C7_Witness ==
    /\ LastMapped
    /\ prevOp.op = "mapLineToWeChat" /\ prevOp.ret
    /\ prevOp.b = lastOp.b /\ prevOp.a # lastOp.a

\* C8: after mapLineToWeChat(a, b) followed by mapLineToWeChat(a, b2) with
\* b2 # b, getLineUserFromWeChat(b) no longer resolves to a (no stale reverse
\* entry for the old counterpart).
C8_NoStaleReverse ==
    (/\ LastMapped
     /\ prevOp.op = "mapLineToWeChat" /\ prevOp.ret
     /\ prevOp.a = lastOp.a /\ prevOp.b # lastOp.b)
        => GetLineUserFromWeChat(prevOp.b) # prevOp.a

\* C9: after any sequence of mapLineToWeChat and removeMapping calls the two
\* indexes are mutually inverse: getWeChatUserFromLine(a) = b if and only if
\* getLineUserFromWeChat(b) = a.
C9_MutuallyInverse ==
    \A a \in LineIds, b \in WeChatIds :
        (GetWeChatUserFromLine(a) = b) <=> (GetLineUserFromWeChat(b) = a)

\* C10: after removeMapping(a) on a store in which a is mapped to b, both
\* getWeChatUserFromLine(a) and getLineUserFromWeChat(b) are not found; every
\* state a reader can observe after the call has both directions removed.
C10_RemoveBothDirections ==
    (lastOp.op = "removeMapping" /\ lastOp.b # NULL) =>
        /\ lastOp.ret
        /\ GetWeChatUserFromLine(lastOp.a) = NULL
        /\ GetLineUserFromWeChat(lastOp.b) = NULL

\* C10 witness: a removal of an existing mapping right after it was created,
\* so that both directions were present before the call.
C10_Witness ==
    /\ lastOp.op = "removeMapping" /\ lastOp.ret
    /\ prevOp.op = "mapLineToWeChat" /\ prevOp.ret
    /\ prevOp.a = lastOp.a /\ prevOp.b = lastOp.b

\* C38: removeMapping(a) changes only the mapping of a: for every other
\* platform-A id a2 that was mapped before the call, resolveFromA(a2) and the
\* reverse lookup of a2's counterpart return the same after the call as
\* before it.
C38_RemoveTouchesOnlyItsPair ==
    [][lastOp'.op = "removeMapping" /\ prevOp' = lastOp =>
         \A a2 \in LineIds \ {lastOp'.a} :
             a2 \in DOMAIN lineToChatMappings =>
                 /\ GetWeChatUserFromLineIn(lineToChatMappings', a2) =
                        GetWeChatUserFromLine(a2)
                 /\ GetLineUserFromWeChatIn(wechatToLineMappings',
                                            GetWeChatUserFromLine(a2)) =
                        GetLineUserFromWeChat(GetWeChatUserFromLine(a2))]_vars

====
